---- MODULE Spec2Model ----
(***************************************************************************)
(* Rust-ML: five from-scratch learning engines (logistic regression,       *)
(* feedforward NN, vanilla RNN, GRU, LSTM), their metrics, and the        *)
(* time-series programs' data pipeline.                                    *)
(*                                                                         *)
(* f64 values are modelled in fixed point: the integer n stands for the    *)
(* real n / Scale.  Results saturate at +-Cap (the model's stand-in for    *)
(* the f64 range); 0/0 and everything computed from it is NaN.             *)
(***************************************************************************)
EXTENDS Integers, Sequences, FiniteSets, TLC

\* ---------------------------------------------------------------- bounds
Scale == 100
Cap == 10000
MaxBatch == 2
MaxCols == 2
MaxHidden == 2
MaxEpochs == 2
MaxFits == 1
MaxLabels == 3
MaxSigmoidArg == 4
MaxSeries == 44
ScenarioLen == 500
MaxForwards == 2
MaxRows == 12
ScenarioRows == 1000
MaxShortSeries == 6
MaxWindow == 4
LongFit == 201

\* ------------------------------------------------------- f64 arithmetic
NaN == Cap + 1
One == Scale
IsNaN(a) == a = NaN
Abs(a) == IF a < 0 THEN -a ELSE a
Sat(v) == IF v > Cap THEN Cap ELSE IF v < -Cap THEN -Cap ELSE v
\* a / b for b > 0, rounded to nearest
RoundDiv(a, b) == IF a >= 0 THEN (2 * a + b) \div (2 * b) ELSE -((2 * (-a) + b) \div (2 * b))
FNeg(a) == IF IsNaN(a) THEN NaN ELSE -a
FAdd(a, b) == IF IsNaN(a) \/ IsNaN(b) THEN NaN ELSE Sat(a + b)
FSub(a, b) == IF IsNaN(a) \/ IsNaN(b) THEN NaN ELSE Sat(a - b)
FMul(a, b) == IF IsNaN(a) \/ IsNaN(b) THEN NaN ELSE Sat(RoundDiv(a * b, Scale))
FDiv(a, b) ==
    IF IsNaN(a) \/ IsNaN(b) THEN NaN
    ELSE IF b = 0 THEN (IF a = 0 THEN NaN ELSE IF a > 0 THEN Cap ELSE -Cap)
    ELSE IF b > 0 THEN Sat(RoundDiv(a * Scale, b))
    ELSE Sat(RoundDiv((-a) * Scale, -b))
\* IEEE comparisons are false on NaN
FGe(a, b) == ~IsNaN(a) /\ ~IsNaN(b) /\ a >= b
FGt(a, b) == ~IsNaN(a) /\ ~IsNaN(b) /\ a > b
FromInt(n) == Sat(n * Scale)

\* f64::exp: halve the argument until it is within +-1/2, then the Taylor
\* polynomial of degree 4, then square back.
ExpSmall(x) ==
    LET x2 == FMul(x, x)
        x3 == FMul(x2, x)
        x4 == FMul(x3, x)
    IN  Sat(One + x + RoundDiv(x2, 2) + RoundDiv(x3, 6) + RoundDiv(x4, 24))
RECURSIVE ExpRec(_)
ExpRec(x) ==
    IF 2 * Abs(x) <= Scale THEN ExpSmall(x)
    ELSE LET h == ExpRec(RoundDiv(x, 2)) IN FMul(h, h)
Exp(x) == IF IsNaN(x) THEN NaN ELSE ExpRec(x)
\* f64::tanh
TanhF(x) ==
    IF IsNaN(x) THEN NaN
    ELSE LET e == Exp(Sat(2 * x)) IN FDiv(FSub(e, One), FAdd(e, One))
\* f64::sqrt of a non-negative value
SqrtF(a) ==
    IF IsNaN(a) \/ a < 0 THEN NaN
    ELSE CHOOSE s \in 0..(a + Scale) : s * s <= a * Scale /\ (s + 1) * (s + 1) > a * Scale

\* ------------------------------------------------------ ndarray substrate
\* Array2: [r, c, d] with d[i][j]; Array1: a sequence.
\* TLC keeps [x \in S |-> e] unevaluated; f @@ <<>> is f, evaluated once.
Strict(f) == f @@ <<>>
Vec(n, F(_)) == Strict([i \in 1..n |-> F(i)])
Mat(r, c, F(_, _)) ==
    [r |-> r, c |-> c, d |-> Strict([i \in 1..r |-> Strict([j \in 1..c |-> F(i, j)])])]
Zeros2(r, c) == Mat(r, c, LAMBDA i, j : 0)
Zeros1(n) == Vec(n, LAMBDA i : 0)
Shape2(A) == <<A.r, A.c>>
RECURSIVE SumTo(_, _)
SumTo(F(_), n) == IF n = 0 THEN 0 ELSE FAdd(SumTo(F, n - 1), F(n))
Dot(A, B) == Mat(A.r, B.c, LAMBDA i, j : SumTo(LAMBDA k : FMul(A.d[i][k], B.d[k][j]), A.c))
Transpose(A) == Mat(A.c, A.r, LAMBDA i, j : A.d[j][i])
Map2(A, F(_)) == Mat(A.r, A.c, LAMBDA i, j : F(A.d[i][j]))
Zip2(A, B, F(_, _)) == Mat(A.r, A.c, LAMBDA i, j : F(A.d[i][j], B.d[i][j]))
Add2(A, B) == Zip2(A, B, FAdd)
Sub2(A, B) == Zip2(A, B, FSub)
Mul2(A, B) == Zip2(A, B, FMul)
AddRow(A, b) == Mat(A.r, A.c, LAMBDA i, j : FAdd(A.d[i][j], b[j]))
AddScalar(A, s) == Map2(A, LAMBDA v : FAdd(v, s))
Scale2(A, s) == Map2(A, LAMBDA v : FMul(v, s))
DivScalar(A, s) == Map2(A, LAMBDA v : FDiv(v, s))
Column0(A) == Vec(A.r, LAMBDA i : A.d[i][1])
AsColumn(v) == Mat(Len(v), 1, LAMBDA i, j : v[i])
Sum2(A) == SumTo(LAMBDA i : SumTo(LAMBDA j : A.d[i][j], A.c), A.r)
Sum1(v) == SumTo(LAMBDA i : v[i], Len(v))
\* X.slice(s![.., t..t+1]) for 1-based t
ColSlice(A, t) == Mat(A.r, 1, LAMBDA i, j : A.d[i][t])

\* in-place `a -= &b`: the result keeps a's shape, b is broadcast to it
Elem(B, i, j) == B.d[IF B.r = 1 THEN 1 ELSE i][IF B.c = 1 THEN 1 ELSE j]
SubAssign2(A, B) == Mat(A.r, A.c, LAMBDA i, j : FSub(A.d[i][j], Elem(B, i, j)))
SubAssign1(a, b) == Vec(Len(a), LAMBDA i : FSub(a[i], b[i]))
\* `&a - &b` builds a new array whose shape is the co-broadcast of both shapes
BroadcastDim(m, n) == IF m = 1 THEN n ELSE m
BroadcastSub(A, B) ==
    Mat(BroadcastDim(A.r, B.r), BroadcastDim(A.c, B.c),
        LAMBDA i, j : FSub(Elem(A, i, j), Elem(B, i, j)))
MatVec(A, v) == Vec(A.r, LAMBDA i : SumTo(LAMBDA k : FMul(A.d[i][k], v[k]), A.c))
TransposeMatVec(A, v) == Vec(A.c, LAMBDA j : SumTo(LAMBDA k : FMul(A.d[k][j], v[k]), A.r))
Map1(v, F(_)) == Vec(Len(v), LAMBDA i : F(v[i]))
\* mean_axis(Axis(0)): None (here <<"None">>) when the axis has length zero
MeanAxis0(A) ==
    IF A.r = 0 THEN [none |-> TRUE, val |-> <<>>]
    ELSE [none |-> FALSE,
          val |-> Vec(A.c, LAMBDA j : FDiv(SumTo(LAMBDA i : A.d[i][j], A.r), FromInt(A.r)))]
\* mean() of all elements: None when the array is empty
MeanIsNone(A) == A.r * A.c = 0
\* Array3 (batch, seq_len, input_size): [b, s, i, d] with d[n][t][k]
Slice3(X, t) == Mat(X.b, X.i, LAMBDA n, k : X.d[n][t][k])

\* loss report periods of the fit loops
NN_report_period == 200
RNN_report_period == 200
GRU_report_period == 100
LSTM_report_period == 100

\* ------------------------------------------------- random initialisation
\* rand::thread_rng() is a stream of draws fixed by its (unknown) seed; the
\* k-th draw of gen_range(-limit..limit) lies on a grid of 16 points in
\* [-limit, limit).
Draw(seed, k, limit) == RoundDiv(limit * (((5 * seed + 3 * k) % 16) - 8), 8)
\* Array2::from_shape_fn((r, c), |_| rng.gen_range(..)): row-major draws
RandMat(seed, off, r, c, limit) ==
    Mat(r, c, LAMBDA i, j : Draw(seed, off + (i - 1) * c + (j - 1), limit))
Xavier(fan_in, fan_out) == SqrtF(FDiv(FromInt(6), FromInt(fan_in + fan_out)))
GateRange == RoundDiv(8 * Scale, 100)

\* ------------------------------------------------------ logistic regression
LogisticRegression_new(n_features, lr, l2, epochs) ==
    [kind |-> "logreg", weights |-> Zeros1(n_features), bias |-> 0,
     lr |-> lr, l2 |-> l2, epochs |-> epochs]
\* one element of the numerically-stable sigmoid, with the argument handed to exp
StableSigmoidAt(x) ==
    IF FGe(x, 0)
    THEN LET e == Exp(FNeg(x)) IN [exp_arg |-> FNeg(x), out |-> FDiv(One, FAdd(One, e))]
    ELSE LET e == Exp(x) IN [exp_arg |-> x, out |-> FDiv(e, FAdd(One, e))]
LogisticRegression_sigmoid(z) == Map1(z, LAMBDA x : StableSigmoidAt(x).out)
LogisticRegression_predict_proba(m, X) ==
    LogisticRegression_sigmoid(Map1(MatVec(X, m.weights), LAMBDA v : FAdd(v, m.bias)))
\* One iteration of the loop of fit.  Every *_fit_epoch returns what the loop body
\* did: panic (the body panicked), stepped (the parameters were updated before
\* that), report (the loss was printed), model (the instance afterwards).
LogisticRegression_fit_epoch(m, X, y, epoch) ==
    LET n_samples == FromInt(X.r)
        y_hat == LogisticRegression_predict_proba(m, X)
        error == Vec(Len(y_hat), LAMBDA i : FSub(y_hat[i], y[i]))
        xt_error == TransposeMatVec(X, error)
        grad_w == Vec(X.c, LAMBDA j : FAdd(FDiv(xt_error[j], n_samples),
                                           FDiv(FMul(m.weights[j], m.l2), n_samples)))
        grad_b == FDiv(Sum1(error), n_samples)
    IN  [panic |-> FALSE, stepped |-> TRUE, report |-> FALSE,
         model |-> [m EXCEPT !.weights = SubAssign1(@, Map1(grad_w, LAMBDA g : FMul(g, m.lr))),
                             !.bias = FSub(@, FMul(m.lr, grad_b))]]

\* --------------------------------------------------------- feedforward NN
NeuralNetwork_new(input_size, hidden_size, lr, epochs, seed) ==
    [kind |-> "nn",
     w1 |-> RandMat(seed, 0, input_size, hidden_size, Xavier(input_size, hidden_size)),
     b1 |-> Zeros1(hidden_size),
     w2 |-> RandMat(seed, input_size * hidden_size, hidden_size, 1, Xavier(hidden_size, 1)),
     b2 |-> 0, lr |-> lr, epochs |-> epochs, hidden_size |-> hidden_size]
relu(x) == Map2(x, LAMBDA val : IF FGt(val, 0) THEN val ELSE 0)
relu_derivative(x) == Map2(x, LAMBDA val : IF FGt(val, 0) THEN One ELSE 0)
NeuralNetwork_sigmoid(x) == Map2(x, LAMBDA val : StableSigmoidAt(val).out)
NeuralNetwork_forward(m, X) ==
    LET z1 == AddRow(Dot(X, m.w1), m.b1)
        a1 == relu(z1)
        z2 == AddScalar(Dot(a1, m.w2), m.b2)
    IN  [a1 |-> a1, z2 |-> z2, a2 |-> NeuralNetwork_sigmoid(z2)]
NeuralNetwork_predict_proba(m, X) == Column0(NeuralNetwork_forward(m, X).a2)
\* NeuralNetwork_fit_epoch with a bug: w2 is updated as soon as dw2 is known, so
\* the hidden layer's gradients are taken through the updated w2
NeuralNetwork_fit_epoch_UpdatesEarly(m, X, y, epoch) ==
    LET n_samples == FromInt(X.r)
        f == NeuralNetwork_forward(m, X)
        dz2 == Sub2(f.a2, AsColumn(y))
        dw2 == DivScalar(Dot(Transpose(f.a1), dz2), n_samples)
        db2 == FDiv(Sum2(dz2), n_samples)
        w2 == SubAssign2(m.w2, Scale2(dw2, m.lr))
        da1 == Dot(dz2, Transpose(w2))
        dz1 == Mul2(da1, relu_derivative(AddRow(Dot(X, m.w1), m.b1)))
        dw1 == DivScalar(Dot(Transpose(X), dz1), n_samples)
        db1 == MeanAxis0(dz1)
    IN  IF db1.none
        THEN [panic |-> TRUE, stepped |-> FALSE, report |-> FALSE, model |-> m]
        ELSE [panic |-> FALSE, stepped |-> TRUE, report |-> epoch % NN_report_period = 0,
              model |-> [m EXCEPT !.w1 = SubAssign2(@, Scale2(dw1, m.lr)),
                                  !.b1 = SubAssign1(@, Map1(db1.val, LAMBDA g : FMul(g, m.lr))),
                                  !.w2 = w2,
                                  !.b2 = FSub(@, FMul(db2, m.lr))]]
NeuralNetwork_fit_epoch(m, X, y, epoch) ==
    LET n_samples == FromInt(X.r)
        f == NeuralNetwork_forward(m, X)
        y_col == AsColumn(y)
        dz2 == Sub2(f.a2, y_col)
        dw2 == DivScalar(Dot(Transpose(f.a1), dz2), n_samples)
        db2 == FDiv(Sum2(dz2), n_samples)
        da1 == Dot(dz2, Transpose(m.w2))
        z1 == AddRow(Dot(X, m.w1), m.b1)
        dz1 == Mul2(da1, relu_derivative(z1))
        dw1 == DivScalar(Dot(Transpose(X), dz1), n_samples)
        db1 == MeanAxis0(dz1)
    IN  IF db1.none
        THEN [panic |-> TRUE, stepped |-> FALSE, report |-> FALSE, model |-> m]
        ELSE [panic |-> FALSE, stepped |-> TRUE, report |-> epoch % NN_report_period = 0,
              model |-> [m EXCEPT !.w1 = SubAssign2(@, Scale2(dw1, m.lr)),
                                  !.b1 = SubAssign1(@, Map1(db1.val, LAMBDA g : FMul(g, m.lr))),
                                  !.w2 = SubAssign2(@, Scale2(dw2, m.lr)),
                                  !.b2 = FSub(@, FMul(db2, m.lr))]]

\* --------------------------------------------------------------- vanilla RNN
RNN_new(input_size, hidden_size, lr, epochs, seed) ==
    [kind |-> "rnn",
     w_xh |-> RandMat(seed, 0, input_size, hidden_size, Xavier(input_size, hidden_size)),
     w_hh |-> RandMat(seed, input_size * hidden_size, hidden_size, hidden_size,
                      Xavier(hidden_size, hidden_size)),
     b_h |-> Zeros1(hidden_size),
     w_hy |-> RandMat(seed, input_size * hidden_size + hidden_size * hidden_size,
                      hidden_size, 1, Xavier(hidden_size, 1)),
     b_y |-> 0, hidden_size |-> hidden_size, lr |-> lr, epochs |-> epochs]
RNN_tanh(x) == Map2(x, TanhF)
\* one element of 1.0 / (1.0 + (-v).exp()), with the argument handed to exp
NaiveSigmoidAt(v) ==
    [exp_arg |-> FNeg(v), out |-> FDiv(One, FAdd(One, Exp(FNeg(v))))]
RNN_sigmoid(x) == Map2(x, LAMBDA v : NaiveSigmoidAt(v).out)
\* what the forward calls since construction or the last fit returned, in call order
VARIABLE fwd_log
\* InitialHidden with a bug: the state the previous forward call ended in is kept
InitialHidden_Carried(batch, hidden_size) ==
    IF fwd_log = <<>> THEN Zeros2(batch, hidden_size)
    ELSE LET out == fwd_log[Len(fwd_log)]
         IN  IF "h_t" \in DOMAIN out THEN out.h_t
             ELSE IF out.hs = <<>> THEN Zeros2(batch, hidden_size)
             ELSE out.hs[Len(out.hs)]
\* Array2::<f64>::zeros((batch, self.hidden_size)): the state a forward call starts from
InitialHidden(batch, hidden_size) == Zeros2(batch, hidden_size)
\* hs after the first t timesteps of the loop of forward
RECURSIVE RNN_hs(_, _, _)
RNN_hs(m, X, t) ==
    IF t = 0 THEN <<>>
    ELSE LET hs == RNN_hs(m, X, t - 1)
             h_prev == IF t = 1 THEN InitialHidden(X.r, m.hidden_size) ELSE hs[t - 1]
             x_t == ColSlice(X, t)
             h_t == RNN_tanh(AddRow(Add2(Dot(x_t, m.w_xh), Dot(h_prev, m.w_hh)), m.b_h))
         IN  Append(hs, h_t)
RNN_forward(m, X) ==
    LET hs == RNN_hs(m, X, X.c)
        h_prev == IF X.c = 0 THEN InitialHidden(X.r, m.hidden_size) ELSE hs[X.c]
        y_logits == AddScalar(Dot(h_prev, m.w_hy), m.b_y)
    IN  [hs |-> hs, y_pred |-> RNN_sigmoid(y_logits)]
RNN_predict_proba(m, X) == Column0(RNN_forward(m, X).y_pred)
\* RNN_fit_epoch with a bug: the hidden bias is trained along with the readout
RNN_fit_epoch_TrainsHidden(m, X, y, epoch) ==
    LET n_samples == FromInt(X.r)
        f == RNN_forward(m, X)
        dz == Sub2(f.y_pred, AsColumn(y))
    IN  IF Len(f.hs) = 0
        THEN [panic |-> TRUE, stepped |-> FALSE, report |-> FALSE, model |-> m]
        ELSE LET dw_hy == DivScalar(Dot(Transpose(f.hs[Len(f.hs)]), dz), n_samples)
                 db_y == FDiv(Sum2(dz), n_samples)
                 loss_due == epoch % RNN_report_period = 0
                 loss_none == MeanIsNone(f.y_pred)
             IN  [panic |-> loss_due /\ loss_none, stepped |-> TRUE,
                  report |-> loss_due /\ ~loss_none,
                  model |-> [m EXCEPT !.w_hy = SubAssign2(@, Scale2(dw_hy, m.lr)),
                                      !.b_y = FSub(@, FMul(db_y, m.lr)),
                                      !.b_h = Map1(@, LAMBDA v : FSub(v, FMul(db_y, m.lr)))]]
\* one iteration of the loop of fit
RNN_fit_epoch(m, X, y, epoch) ==
    LET n_samples == FromInt(X.r)
        f == RNN_forward(m, X)
        y_col == AsColumn(y)
        dz == Sub2(f.y_pred, y_col)
    IN  IF Len(f.hs) = 0
        THEN [panic |-> TRUE, stepped |-> FALSE, report |-> FALSE, model |-> m]
        ELSE LET dw_hy == DivScalar(Dot(Transpose(f.hs[Len(f.hs)]), dz), n_samples)
                 db_y == FDiv(Sum2(dz), n_samples)
                 loss_due == epoch % RNN_report_period = 0
                 loss_none == MeanIsNone(f.y_pred)
             IN  [panic |-> loss_due /\ loss_none, stepped |-> TRUE,
                  report |-> loss_due /\ ~loss_none,
                  model |-> [m EXCEPT !.w_hy = SubAssign2(@, Scale2(dw_hy, m.lr)),
                                      !.b_y = FSub(@, FMul(db_y, m.lr))]]

\* ----------------------------------------------------------------------- GRU
GRU_new(input_size, hidden_size, lr, seed) ==
    LET wn == input_size * hidden_size
        un == hidden_size * hidden_size
        W(k) == RandMat(seed, k * (wn + un), input_size, hidden_size, GateRange)
        U(k) == RandMat(seed, k * (wn + un) + wn, hidden_size, hidden_size, GateRange)
    IN  [kind |-> "gru",
         w_z |-> W(0), u_z |-> U(0), b_z |-> Zeros1(hidden_size),
         w_r |-> W(1), u_r |-> U(1), b_r |-> Zeros1(hidden_size),
         w_h |-> W(2), u_h |-> U(2), b_h |-> Zeros1(hidden_size),
         w_hy |-> RandMat(seed, 3 * (wn + un), hidden_size, 1, GateRange),
         b_y |-> 0, input_size |-> input_size, hidden_size |-> hidden_size, lr |-> lr]
GRU_sigmoid(a) == Map2(a, LAMBDA x : NaiveSigmoidAt(x).out)
GRU_tanh(a) == Map2(a, TanhF)
Gate(x_t, w, h, u, b) == AddRow(Add2(Dot(x_t, w), Dot(h, u)), b)
\* hs after the first t timesteps of the loop of forward
RECURSIVE GRU_hs(_, _, _)
GRU_hs(m, X, t) ==
    IF t = 0 THEN <<>>
    ELSE LET hs == GRU_hs(m, X, t - 1)
             h_t == IF t = 1 THEN InitialHidden(X.b, m.hidden_size) ELSE hs[t - 1]
             x_t == Slice3(X, t)
             z_t == GRU_sigmoid(Gate(x_t, m.w_z, h_t, m.u_z, m.b_z))
             r_t == GRU_sigmoid(Gate(x_t, m.w_r, h_t, m.u_r, m.b_r))
             h_tilde == GRU_tanh(Gate(x_t, m.w_h, Mul2(r_t, h_t), m.u_h, m.b_h))
             h_new == Add2(Mul2(Map2(z_t, LAMBDA v : FSub(One, v)), h_t), Mul2(z_t, h_tilde))
         IN  Append(hs, h_new)
\* GRU_forward with a bug: the state handed to the readout is the first entry
GRU_forward_FirstState(m, X) ==
    LET hs == GRU_hs(m, X, X.s)
    IN  [h_t |-> IF X.s = 0 THEN InitialHidden(X.b, m.hidden_size) ELSE hs[1], hs |-> hs]
GRU_forward(m, X) ==
    LET hs == GRU_hs(m, X, X.s)
    IN  [h_t |-> IF X.s = 0 THEN InitialHidden(X.b, m.hidden_size) ELSE hs[X.s], hs |-> hs]
\* predict, the same code in GRU and LSTM, given forward's h_last
ReadoutPredict(m, h_last) == Column0(AddScalar(Dot(h_last, m.w_hy), m.b_y))
GRU_predict(m, X) == ReadoutPredict(m, GRU_forward(m, X).h_t)
\* ReadoutGradW with a bug: the product is taken the other way round, (1, hidden)
ReadoutGradW_Transposed(h_last, diff, n) ==
    DivScalar(Dot(Transpose(AsColumn(diff)), h_last), n)
\* grad_w of fit_output_only
ReadoutGradW(h_last, diff, n) == DivScalar(Dot(Transpose(h_last), AsColumn(diff)), n)
\* one iteration of the loop of fit_output_only (the same code in GRU and LSTM)
ReadoutFitEpoch(m, h_last, y, batch, report) ==
    LET n == FromInt(batch)
        y_pred_col == ReadoutPredict(m, h_last)
        diff == Vec(Len(y_pred_col), LAMBDA i : FSub(y_pred_col[i], y[i]))
        grad_w == ReadoutGradW(h_last, diff, n)
        grad_b == FDiv(Sum1(diff), n)
    IN  [panic |-> FALSE, stepped |-> TRUE, report |-> report,
         model |-> [m EXCEPT !.w_hy = BroadcastSub(@, Scale2(grad_w, m.lr)),
                             !.b_y = FSub(@, FMul(m.lr, grad_b))]]
\* GRU_fit_output_only_epoch with a bug: the update-gate bias is trained too
GRU_fit_output_only_epoch_TrainsGate(m, X, y, epoch) ==
    LET res == ReadoutFitEpoch(m, GRU_forward(m, X).h_t, y, X.b, epoch % GRU_report_period = 0)
    IN  [res EXCEPT !.model.b_z = Map1(@, LAMBDA v : FSub(v, FMul(m.lr, One)))]
GRU_fit_output_only_epoch(m, X, y, epoch) ==
    ReadoutFitEpoch(m, GRU_forward(m, X).h_t, y, X.b, epoch % GRU_report_period = 0)

\* ---------------------------------------------------------------------- LSTM
LSTM_new(input_size, hidden_size, lr, seed) ==
    LET wn == input_size * hidden_size
        un == hidden_size * hidden_size
        W(k) == RandMat(seed, k * (wn + un), input_size, hidden_size, GateRange)
        U(k) == RandMat(seed, k * (wn + un) + wn, hidden_size, hidden_size, GateRange)
    IN  [kind |-> "lstm",
         w_i |-> W(0), u_i |-> U(0), b_i |-> Zeros1(hidden_size),
         w_f |-> W(1), u_f |-> U(1), b_f |-> Zeros1(hidden_size),
         w_o |-> W(2), u_o |-> U(2), b_o |-> Zeros1(hidden_size),
         w_g |-> W(3), u_g |-> U(3), b_g |-> Zeros1(hidden_size),
         w_hy |-> RandMat(seed, 4 * (wn + un), hidden_size, 1, GateRange),
         b_y |-> 0, input_size |-> input_size, hidden_size |-> hidden_size, lr |-> lr]
LSTM_sigmoid(a) == Map2(a, LAMBDA x : NaiveSigmoidAt(x).out)
LSTM_tanh(a) == Map2(a, TanhF)
\* (h_t, c_t) after each of the first t timesteps of the loop of forward
RECURSIVE LSTM_states(_, _, _)
LSTM_states(m, X, t) ==
    IF t = 0 THEN <<>>
    ELSE LET st == LSTM_states(m, X, t - 1)
             h_t == IF t = 1 THEN InitialHidden(X.b, m.hidden_size) ELSE st[t - 1].h
             c_t == IF t = 1 THEN InitialHidden(X.b, m.hidden_size) ELSE st[t - 1].c
             x_t == Slice3(X, t)
             i_t == LSTM_sigmoid(Gate(x_t, m.w_i, h_t, m.u_i, m.b_i))
             f_t == LSTM_sigmoid(Gate(x_t, m.w_f, h_t, m.u_f, m.b_f))
             o_t == LSTM_sigmoid(Gate(x_t, m.w_o, h_t, m.u_o, m.b_o))
             g_t == LSTM_tanh(Gate(x_t, m.w_g, h_t, m.u_g, m.b_g))
             c_new == Add2(Mul2(f_t, c_t), Mul2(i_t, g_t))
             h_new == Mul2(o_t, LSTM_tanh(c_new))
         IN  Append(st, [h |-> h_new, c |-> c_new])
LSTM_forward(m, X) ==
    LET st == LSTM_states(m, X, X.s)
    IN  [h_t |-> IF X.s = 0 THEN InitialHidden(X.b, m.hidden_size) ELSE st[X.s].h,
         hs |-> Vec(X.s, LAMBDA t : st[t].h)]
LSTM_predict(m, X) == ReadoutPredict(m, LSTM_forward(m, X).h_t)
\* LSTM_fit_output_only_epoch with a bug: the report comes at the end of a period
LSTM_fit_output_only_epoch_ReportsLate(m, X, y, epoch) ==
    ReadoutFitEpoch(m, LSTM_forward(m, X).h_t, y, X.b, (epoch + 1) % LSTM_report_period = 0)
LSTM_fit_output_only_epoch(m, X, y, epoch) ==
    ReadoutFitEpoch(m, LSTM_forward(m, X).h_t, y, X.b, epoch % LSTM_report_period = 0)

\* ----------------------------------------------------------- hard predictions
\* ThresholdAt with a bug: a strict comparison
ThresholdAt_Strict(p, threshold) == IF FGt(p, threshold) THEN 1 ELSE 0
\* |p| if p >= threshold { 1 } else { 0 }
ThresholdAt(p, threshold) == IF FGe(p, threshold) THEN 1 ELSE 0
LogisticRegression_predict(m, X, threshold) ==
    Map1(LogisticRegression_predict_proba(m, X), LAMBDA p : ThresholdAt(p, threshold))
NeuralNetwork_predict(m, X, threshold) ==
    Map1(NeuralNetwork_predict_proba(m, X), LAMBDA p : ThresholdAt(p, threshold))
RNN_predict(m, X, threshold) ==
    Map1(RNN_predict_proba(m, X), LAMBDA p : ThresholdAt(p, threshold))

\* ------------------------------------------------------------------ metrics
\* Counts and the ratios of counts are exact: an f64 here is the fraction n / d
\* in lowest terms; x / 0 is QInf and 0 / 0 is QNaN, as in IEEE arithmetic.
RECURSIVE GCD(_, _)
GCD(a, b) == IF b = 0 THEN a ELSE GCD(b, a % b)
QNaN == [n |-> 0, d |-> 0]
QInf == [n |-> 1, d |-> 0]
Q(n, d) ==
    IF d = 0 THEN (IF n = 0 THEN QNaN ELSE QInf)
    ELSE LET g == GCD(n, d) IN [n |-> n \div g, d |-> d \div g]
QInt(k) == Q(k, 1)
QAdd(a, b) ==
    IF a = QNaN \/ b = QNaN THEN QNaN
    ELSE IF a = QInf \/ b = QInf THEN QInf
    ELSE Q(a.n * b.d + b.n * a.d, a.d * b.d)
QMul(a, b) ==
    IF a = QNaN \/ b = QNaN THEN QNaN
    ELSE IF a = QInf \/ b = QInf THEN (IF a.n = 0 \/ b.n = 0 THEN QNaN ELSE QInf)
    ELSE Q(a.n * b.n, a.d * b.d)
QDiv(a, b) ==
    IF a = QNaN \/ b = QNaN THEN QNaN
    ELSE IF a = QInf THEN (IF b = QInf THEN QNaN ELSE QInf)
    ELSE IF b = QInf THEN QInt(0)
    ELSE Q(a.n * b.d, a.d * b.n)
Min(a, b) == IF a <= b THEN a ELSE b
\* y_true.iter().zip(y_pred.iter()).filter(|(&t, &p)| t == tv && p == pv).count() as f64
CountPairs(y_true, y_pred, tv, pv) ==
    QInt(Cardinality({i \in 1..Min(Len(y_true), Len(y_pred)) :
                         y_true[i] = tv /\ y_pred[i] = pv}))
\* precision with a bug: no guard on the denominator
precision_Unguarded(y_true, y_pred) ==
    LET tp == CountPairs(y_true, y_pred, 1, 1)
        fp == CountPairs(y_true, y_pred, 0, 1)
    IN  QDiv(tp, QAdd(tp, fp))
precision(y_true, y_pred) ==
    LET tp == CountPairs(y_true, y_pred, 1, 1)
        fp == CountPairs(y_true, y_pred, 0, 1)
    IN  IF QAdd(tp, fp) = QInt(0) THEN QInt(0) ELSE QDiv(tp, QAdd(tp, fp))
recall(y_true, y_pred) ==
    LET tp == CountPairs(y_true, y_pred, 1, 1)
        fn_count == CountPairs(y_true, y_pred, 1, 0)
    IN  IF QAdd(tp, fn_count) = QInt(0) THEN QInt(0) ELSE QDiv(tp, QAdd(tp, fn_count))
\* f1_score with a bug: the arithmetic mean
f1_score_Arithmetic(p, r) ==
    IF QAdd(p, r) = QInt(0) THEN QInt(0) ELSE QDiv(QAdd(p, r), QInt(2))
f1_score(p, r) ==
    IF QAdd(p, r) = QInt(0) THEN QInt(0)
    ELSE QDiv(QMul(QInt(2), QMul(p, r)), QAdd(p, r))

\* the sigmoid of each engine at one element
SigmoidAtOf(engine, x) ==
    CASE engine = "logreg" -> StableSigmoidAt(x)
      [] engine = "nn" -> StableSigmoidAt(x)
      [] engine = "rnn" -> NaiveSigmoidAt(x)
      [] engine = "gru" -> NaiveSigmoidAt(x)
      [] engine = "lstm" -> NaiveSigmoidAt(x)

\* ----------------------------------------------- f64 products of a count
\* `n as f64 * c` is computed bit for bit: an f64 is m * 2^e, m a binary numeral
\* (least significant bit first) of at most 53 significant bits.
RECURSIVE NatBits(_)
NatBits(n) == IF n = 0 THEN <<>> ELSE <<n % 2>> \o NatBits(n \div 2)
RECURSIVE BitsToNat(_)
BitsToNat(a) == IF a = <<>> THEN 0 ELSE a[1] + 2 * BitsToNat(Tail(a))
Pow2(k) == BitsToNat([i \in 1..(k + 1) |-> IF i = k + 1 THEN 1 ELSE 0])
\* hexadecimal digits, most significant first, as a binary numeral
HexBits(h) ==
    [j \in 1..(4 * Len(h)) |-> (h[Len(h) - ((j - 1) \div 4)] \div Pow2((j - 1) % 4)) % 2]
BitAt(a, i) == IF i <= Len(a) THEN a[i] ELSE 0
\* bits lo..hi of a + b given the carry into bit lo, and the carry out; by halves
RECURSIVE BitsAddRange(_, _, _, _, _)
BitsAddRange(a, b, lo, hi, carry) ==
    IF lo > hi THEN [bits |-> <<>>, carry |-> carry]
    ELSE IF lo = hi
    THEN LET sum == BitAt(a, lo) + BitAt(b, lo) + carry
         IN  [bits |-> <<sum % 2>>, carry |-> sum \div 2]
    ELSE LET mid == (lo + hi) \div 2
             low == BitsAddRange(a, b, lo, mid, carry)
             high == BitsAddRange(a, b, mid + 1, hi, low.carry)
         IN  [bits |-> low.bits \o high.bits, carry |-> high.carry]
BitsAdd(a, b) ==
    LET sum == BitsAddRange(a, b, 1, IF Len(a) > Len(b) THEN Len(a) ELSE Len(b), 0)
    IN  sum.bits \o (IF sum.carry = 1 THEN <<1>> ELSE <<>>)
ShiftLeft(a, k) == [i \in 1..k |-> 0] \o a
\* the partial products of bits lo..hi of a with b, summed by halves
RECURSIVE BitsMulRange(_, _, _, _)
BitsMulRange(a, b, lo, hi) ==
    IF lo > hi THEN <<>>
    ELSE IF lo = hi THEN (IF a[lo] = 1 THEN ShiftLeft(b, lo - 1) ELSE <<>>)
    ELSE LET mid == (lo + hi) \div 2
         IN  BitsAdd(BitsMulRange(a, b, lo, mid), BitsMulRange(a, b, mid + 1, hi))
BitsMul(a, b) == BitsMulRange(a, b, 1, Len(a))
BitLen(a) == IF \E i \in 1..Len(a) : a[i] = 1
             THEN CHOOSE i \in 1..Len(a) : a[i] = 1 /\ \A j \in (i + 1)..Len(a) : a[j] = 0
             ELSE 0
\* round to nearest, ties to even, at 53 significant bits
F64Round(bits, e) ==
    LET len == BitLen(bits)
        drop == len - 53
    IN  IF drop <= 0 THEN [m |-> SubSeq(bits, 1, len), e |-> e]
        ELSE LET kept == SubSeq(bits, drop + 1, len)
                 half == bits[drop] = 1
                 sticky == \E i \in 1..(drop - 1) : bits[i] = 1
                 up == half /\ (sticky \/ kept[1] = 1)
             IN  [m |-> IF up THEN BitsAdd(kept, <<1>>) ELSE kept, e |-> e + drop]
\* `n as f64`, n a usize below 2^53
F64FromUsize(n) == [m |-> NatBits(n), e |-> 0]
F64Mul(a, b) == F64Round(BitsMul(a.m, b.m), a.e + b.e)
\* the f64 literal 0.1 = 0x1999999999999A * 2^-56
F64_0_1 == [m |-> HexBits(<<1, 9, 9, 9, 9, 9, 9, 9, 9, 9, 9, 9, 9, 10>>), e |-> -56]
\* `v as usize` of a non-negative f64: the integer part
F64Trunc(v) ==
    IF v.e >= 0 THEN BitsToNat(ShiftLeft(v.m, v.e))
    ELSE BitsToNat(SubSeq(v.m, 1 - v.e, Len(v.m)))
F64HasFraction(v) == v.e < 0 /\ \E i \in 1..Len(v.m) : i <= -v.e /\ v.m[i] = 1
\* `v.ceil() as usize`
F64CeilAsUsize(v) == F64Trunc(v) + (IF F64HasFraction(v) THEN 1 ELSE 0)

\* ------------------------------------------------ the GRU / LSTM programs
\* main's parameters
seq_len == 24
main_hidden_size == 64
main_epochs == 1000
\* A raw series value counts units of 1e-9, so that the floor 1e-8 that
\* make_dataset puts under a zero std is 10 units; mean and std carry Scale
\* fractional steps of a unit, normalised values are f64 as everywhere else.
StdFloor == 10
\* F(lo) + .. + F(hi), summed by halves
RECURSIVE ISumRange(_, _, _)
ISumRange(F(_), lo, hi) ==
    IF lo > hi THEN 0
    ELSE IF lo = hi THEN F(lo)
    ELSE LET mid == (lo + hi) \div 2
         IN  ISumRange(F, lo, mid) + ISumRange(F, mid + 1, hi)
ISum(F(_), n) == ISumRange(F, 1, n)
ISqrt(a) == CHOOSE r \in 0..a : r * r <= a /\ (r + 1) * (r + 1) > a
Normalise(v, mean, std) ==
    IF IsNaN(mean) \/ IsNaN(std) THEN NaN
    ELSE Sat(RoundDiv((v * Scale - mean) * Scale, std))
\* the sample count with a bug: one window too many
SampleCount_Inclusive(len, sl) == IF len + 1 >= sl THEN len + 1 - sl ELSE 0
\* series.len().saturating_sub(seq_len)
SampleCount(len, sl) == IF len >= sl THEN len - sl ELSE 0
\* the 0-based indices at which the loops of make_dataset read the series:
\* series[i + t] and series[i + seq_len] for i in 0..n_samples, t in 0..seq_len
WindowReads(len, sl) ==
    UNION {{i + t : t \in 0..(sl - 1)} \cup {i + sl} : i \in 0..(SampleCount(len, sl) - 1)}
\* X[[i, t, 0]] = series[i + t] and y[i] = series[i + seq_len], i and t counted from 1
WindowValue(series, i, t) == series[i + t - 1]
TargetValue(series, sl, i) == series[i + sl]
make_dataset(series, sl) ==
    LET n_samples == SampleCount(Len(series), sl)
        Xraw(i, t) == WindowValue(series, i, t)
        yraw(i) == TargetValue(series, sl, i)
        count == n_samples * sl
        total == ISum(LAMBDA i : ISum(LAMBDA t : Xraw(i, t), sl), n_samples)
        mean == IF count = 0 THEN NaN ELSE RoundDiv(total * Scale, count)
        sq(v) == (v * Scale - mean) * (v * Scale - mean)
        var == RoundDiv(ISum(LAMBDA i : ISum(LAMBDA t : sq(Xraw(i, t)), sl), n_samples),
                        count)
        std0 == IF count = 0 THEN NaN ELSE ISqrt(var)
        std == IF std0 = 0 THEN StdFloor * Scale ELSE std0
    IN  [X |-> [b |-> n_samples, s |-> sl, i |-> 1,
                d |-> Vec(n_samples, LAMBDA i : Vec(sl, LAMBDA t :
                          Vec(1, LAMBDA k : Normalise(Xraw(i, t), mean, std))))],
         y |-> Vec(n_samples, LAMBDA i : Normalise(yraw(i), mean, std)),
         mean |-> mean, std |-> std]
\* the length check with a bug: it only asks for one whole window and its target
SeriesTooShort_WindowOnly(len, sl) == len <= sl
\* the length check with a bug: one value fewer is accepted
SeriesTooShort_Strict(len, sl) == len < sl + 1
\* `series.len() <= seq_len + 1`
SeriesTooShort(len, sl) == len <= sl + 1
\* the test share with a bug: rounded down
TestCount_Floor(n_samples) == F64Trunc(F64Mul(F64FromUsize(n_samples), F64_0_1))
\* `(n_samples as f64 * 0.1).ceil() as usize`
TestCount(n_samples) == F64CeilAsUsize(F64Mul(F64FromUsize(n_samples), F64_0_1))
\* X.slice(s![lo..hi, .., ..]).to_owned() and y.slice(s![lo..hi]).to_owned(), 0-based
SliceRows3(A, lo, hi) ==
    [b |-> hi - lo, s |-> A.s, i |-> A.i, d |-> Vec(hi - lo, LAMBDA n : A.d[lo + n])]
SliceRows1(a, lo, hi) == Vec(hi - lo, LAMBDA n : a[lo + n])

\* ------------------------------------------------- the tabular programs
\* A cell of the loaded table is an integer; mean and std carry Scale
\* fractional steps, standardised values are f64 as everywhere else.
\* the f64 literal 0.8 = 0x1999999999999A * 2^-53
F64_0_8 == [m |-> HexBits(<<1, 9, 9, 9, 9, 9, 9, 9, 9, 9, 9, 9, 9, 10>>), e |-> -53]
\* the training share with a bug: rounded to nearest
TrainCount_Round(n) == (8 * n + 5) \div 10
\* `(X_std.nrows() as f64 * 0.8) as usize`
TrainCount(n) == F64Trunc(F64Mul(F64FromUsize(n), F64_0_8))
\* X.mean_axis(Axis(0)): None on a table without rows
ColumnMeans(A) ==
    IF A.r = 0 THEN [none |-> TRUE, val |-> <<>>]
    ELSE [none |-> FALSE,
          val |-> Vec(A.c, LAMBDA j : RoundDiv(ISum(LAMBDA i : A.d[i][j], A.r) * Scale, A.r))]
\* X.std_axis(Axis(0), 0.0): the population standard deviation of each column
ColumnStds(A, mean) ==
    Vec(A.c, LAMBDA j :
        IF A.r = 0 THEN NaN
        ELSE ISqrt(RoundDiv(ISum(LAMBDA i : (A.d[i][j] * Scale - mean[j])
                                             * (A.d[i][j] * Scale - mean[j]), A.r), A.r)))
\* (x - mean) / (std + 1e-9): 1e-9 is below the resolution of a non-zero std, and
\* on a constant column it divides a zero difference
Standardise(v, mean, std) ==
    IF std = 0
    THEN (IF v * Scale = mean THEN 0 ELSE IF v * Scale > mean THEN Cap ELSE -Cap)
    ELSE Sat(RoundDiv((v * Scale - mean) * Scale, std))
\* the rows of X, each minus mean and divided by &std + 1e-9, collected into X_std
StandardiseRows(A, mean, std) ==
    Mat(A.r, A.c, LAMBDA i, j : Standardise(A.d[i][j], mean[j], std[j]))
\* A.slice(s![lo..hi, ..]).to_owned(), 0-based
SliceRows2(A, lo, hi) == Mat(hi - lo, A.c, LAMBDA i, j : A.d[lo + i][j])

\* ------------------------------------------------------------------- inputs
LearningRate == Scale \div 2
L2 == RoundDiv(Scale, 100)
Thresholds == {0, Scale \div 2, Scale}
Seeds == {1, 2}
HiddenSizes == {1, MaxHidden}
\* rows of a data set; feature columns of a tabular one; time steps of a windowed one
BatchSizes == {0, 1, MaxBatch}
FeatureCounts == {1, MaxCols}
SequenceLengths == {0, 1, MaxCols}
DataVal(p, i, t) == RoundDiv((((3 * i + 5 * t + 2 * p) % 5) - 2) * Scale, 2)
Patterns == {1}
\* feature matrix (n rows, cols features) and its 0/1 labels
TabularX(n, cols, p) == Mat(n, cols, LAMBDA i, j : DataVal(p, i, j))
TabularY(n, p) == Vec(n, LAMBDA i : IF (i + p) % 2 = 0 THEN One ELSE 0)
\* windowed batch (batch, seq_len, 1) and its regression targets
WindowX(b, sl, p) ==
    [b |-> b, s |-> sl, i |-> 1,
     d |-> Vec(b, LAMBDA n : Vec(sl, LAMBDA t : Vec(1, LAMBDA k : DataVal(p, n, t))))]
WindowY(b, sl, p) == Vec(b, LAMBDA n : DataVal(p, n, sl + 1))

\* -------------------------------------------------------------------- state
VARIABLES
    model,      \* the model instance: its parameter tensors and hyperparameters
    created,    \* the instance as its constructor returned it
    X, y,       \* the data set handed to fit / forward / predict
    pc,         \* "ready" | "fit" (inside the epoch loop) | "panic" (aborted)
    epoch,      \* the loop variable of the running fit
    fit_epochs, \* the loop bound of the running fit
    passes,     \* forward passes made by the running (or last) fit
    steps,      \* gradient steps applied by the running (or last) fit
    reports,    \* epochs at which the running (or last) fit reported its loss
    pred_log,   \* results of the predict(X, threshold) calls since the last fit
    last_out,   \* result of the last forward / regression predict call
    fits,       \* fit calls made so far
    call,       \* the last application of a metric or of a sigmoid, with its result
    prog,       \* the program that runs: "gru" | "lstm"
    main_pc,    \* main's position
    series,     \* what load_series returned
    dataset,    \* (X_all, y_all) and the statistics make_dataset normalised with
    split,      \* n_samples, n_test, n_train and the four slices
    main_model, \* the model main constructed and trained
    stdout,     \* the lines printed so far
    files,      \* the files written so far
    run_input,  \* what two runs of a classifier program share: data and hyperparameters
    run,        \* the two runs: position, rng seed, model, predictions, accuracy
    tabular     \* a tabular program's main: position, loaded table, standardised table, split

engine_vars == <<model, created, X, y, pc, epoch, fit_epochs, passes, steps, reports,
                 pred_log, last_out, fwd_log, fits>>
pure_vars == <<call>>
\* what the engines' operations leave alone
main_vars == <<prog, main_pc, series, dataset, split, main_model, stdout, files>>
runs_vars == <<run_input, run>>
outside_engine == <<pure_vars, main_vars, runs_vars, tabular>>
outside_pure == <<engine_vars, main_vars, runs_vars, tabular>>
outside_main == <<engine_vars, pure_vars, runs_vars, tabular>>
outside_runs == <<engine_vars, pure_vars, main_vars, tabular>>
outside_tabular == <<engine_vars, pure_vars, main_vars, runs_vars>>
vars == <<engine_vars, pure_vars, main_vars, runs_vars, tabular>>

Classifiers == {"logreg", "nn", "rnn"}
Regressors == {"gru", "lstm"}
NoOut == [op |-> "none"]

NoCall == [fn |-> "none"]
None == [none |-> TRUE]
MainIdle ==
    /\ prog = "none"
    /\ main_pc = "idle"
    /\ series = <<>>
    /\ dataset = None
    /\ split = None
    /\ main_model = None
    /\ stdout = <<>>
    /\ files = {}
RunsIdle ==
    /\ run_input = None
    /\ run = <<>>
TabularIdle == tabular = None
Constructed(m, data, labels) ==
    /\ call = NoCall
    /\ MainIdle
    /\ RunsIdle
    /\ TabularIdle
    /\ model = m
    /\ created = m
    /\ X = data
    /\ y = labels
    /\ pc = "ready"
    /\ epoch = 0
    /\ fit_epochs = 0
    /\ passes = 0
    /\ steps = 0
    /\ reports = <<>>
    /\ pred_log = {}
    /\ last_out = NoOut
    /\ fwd_log = <<>>
    /\ fits = 0

\* the epoch counts a fit is given: a few short ones for every model and data
\* set, and one spanning more than a report period for the smallest of them
EpochCounts(hidden_size, rows, cols) ==
    (0..MaxEpochs) \cup (IF hidden_size = 1 /\ rows = 1 /\ cols = 1 THEN {LongFit} ELSE {})
InitLogReg ==
    \E cols \in FeatureCounts, n \in BatchSizes, p \in Patterns, e \in 0..MaxEpochs :
        Constructed(LogisticRegression_new(cols, LearningRate, L2, e),
                    TabularX(n, cols, p), TabularY(n, p))
InitNN ==
    \E cols \in FeatureCounts, h \in HiddenSizes, n \in BatchSizes, p \in Patterns,
       seed \in Seeds :
      \E e \in EpochCounts(h, n, cols) :
        Constructed(NeuralNetwork_new(cols, h, LearningRate, e, seed),
                    TabularX(n, cols, p), TabularY(n, p))
InitRNN ==
    \E cols \in SequenceLengths, h \in HiddenSizes, n \in BatchSizes, p \in Patterns,
       seed \in Seeds :
      \E e \in EpochCounts(h, n, cols) :
        Constructed(RNN_new(1, h, LearningRate, e, seed),
                    TabularX(n, cols, p), TabularY(n, p))
InitGRU ==
    \E sl \in SequenceLengths, h \in HiddenSizes, b \in BatchSizes, p \in Patterns,
       seed \in Seeds :
        Constructed(GRU_new(1, h, LearningRate, seed), WindowX(b, sl, p), WindowY(b, sl, p))
InitLSTM ==
    \E sl \in SequenceLengths, h \in HiddenSizes, b \in BatchSizes, p \in Patterns,
       seed \in Seeds :
        Constructed(LSTM_new(1, h, LearningRate, seed), WindowX(b, sl, p), WindowY(b, sl, p))

Init == InitLogReg \/ InitNN \/ InitRNN \/ InitGRU \/ InitLSTM

\* fit(X, y) / fit_output_only(X, y, epochs) is entered: `for epoch in 0..epochs`
EnterFit(e) ==
    /\ pc = "ready"
    /\ fits < MaxFits
    /\ pc' = "fit"
    /\ epoch' = 0
    /\ fit_epochs' = e
    /\ passes' = 0
    /\ steps' = 0
    /\ reports' = <<>>
    /\ pred_log' = {}
    /\ last_out' = NoOut
    /\ fwd_log' = <<>>
    /\ UNCHANGED <<model, created, X, y, fits, outside_engine>>
CallFit ==
    /\ model.kind \in Classifiers
    /\ EnterFit(model.epochs)
CallFitOutputOnly ==
    /\ model.kind \in Regressors
    /\ \E e \in EpochCounts(model.hidden_size, X.b, X.s) : EnterFit(e)

\* one iteration of `for epoch in 0..epochs`: `res` is what the loop body did
Iteration(res) ==
    /\ model' = res.model
    /\ passes' = passes + 1
    /\ steps' = IF res.stepped THEN steps + 1 ELSE steps
    /\ reports' = IF res.report THEN Append(reports, epoch) ELSE reports
    /\ IF res.panic
       THEN pc' = "panic" /\ epoch' = epoch
       ELSE pc' = "fit" /\ epoch' = epoch + 1
    /\ UNCHANGED <<created, X, y, fit_epochs, pred_log, last_out, fwd_log, fits,
                   outside_engine>>
InLoop(kind) == pc = "fit" /\ epoch < fit_epochs /\ model.kind = kind
LogRegFitEpoch ==
    /\ InLoop("logreg")
    /\ Iteration(LogisticRegression_fit_epoch(model, X, y, epoch))
NNFitEpoch ==
    /\ InLoop("nn")
    /\ Iteration(NeuralNetwork_fit_epoch(model, X, y, epoch))
RNNFitEpoch ==
    /\ InLoop("rnn")
    /\ Iteration(RNN_fit_epoch(model, X, y, epoch))
GRUFitEpoch ==
    /\ InLoop("gru")
    /\ Iteration(GRU_fit_output_only_epoch(model, X, y, epoch))
LSTMFitEpoch ==
    /\ InLoop("lstm")
    /\ Iteration(LSTM_fit_output_only_epoch(model, X, y, epoch))
\* the loop ends and fit returns
FitReturn ==
    /\ pc = "fit"
    /\ epoch = fit_epochs
    /\ pc' = "ready"
    /\ fits' = fits + 1
    /\ UNCHANGED <<model, created, X, y, epoch, fit_epochs, passes, steps, reports,
                   pred_log, last_out, fwd_log, outside_engine>>

\* predict(X, threshold) of the three classifiers
PredictOf(m, data, threshold) ==
    CASE m.kind = "logreg" -> LogisticRegression_predict(m, data, threshold)
      [] m.kind = "nn" -> NeuralNetwork_predict(m, data, threshold)
      [] m.kind = "rnn" -> RNN_predict(m, data, threshold)
PredictProbaOf(m, data) ==
    CASE m.kind = "logreg" -> LogisticRegression_predict_proba(m, data)
      [] m.kind = "nn" -> NeuralNetwork_predict_proba(m, data)
      [] m.kind = "rnn" -> RNN_predict_proba(m, data)
CallPredict ==
    /\ pc = "ready"
    /\ model.kind \in Classifiers
    /\ \E threshold \in Thresholds :
         pred_log' = pred_log \cup
             {[threshold |-> threshold, labels |-> PredictOf(model, X, threshold)]}
    /\ UNCHANGED <<model, created, X, y, pc, epoch, fit_epochs, passes, steps, reports,
                   last_out, fwd_log, fits, outside_engine>>
\* forward(X) of the recurrent models
ForwardOf(m, data) ==
    CASE m.kind = "rnn" -> RNN_forward(m, data)
      [] m.kind = "gru" -> GRU_forward(m, data)
      [] m.kind = "lstm" -> LSTM_forward(m, data)
CallForward ==
    /\ pc = "ready"
    /\ model.kind \in {"rnn", "gru", "lstm"}
    /\ Len(fwd_log) < MaxForwards
    /\ LET out == ForwardOf(model, X)
       IN  /\ last_out' = [op |-> "forward", val |-> out]
           /\ fwd_log' = Append(fwd_log, out)
    /\ UNCHANGED <<model, created, X, y, pc, epoch, fit_epochs, passes, steps, reports,
                   pred_log, fits, outside_engine>>
\* predict(X) of GRU and LSTM: the raw readout
CallPredictValue ==
    /\ pc = "ready"
    /\ model.kind \in Regressors
    /\ last_out' = [op |-> "predict",
                    val |-> IF model.kind = "gru" THEN GRU_predict(model, X)
                            ELSE LSTM_predict(model, X)]
    /\ UNCHANGED <<model, created, X, y, pc, epoch, fit_epochs, passes, steps, reports,
                   pred_log, fwd_log, fits, outside_engine>>

Next ==
    \/ CallFit
    \/ CallFitOutputOnly
    \/ LogRegFitEpoch
    \/ NNFitEpoch
    \/ RNNFitEpoch
    \/ GRUFitEpoch
    \/ LSTMFitEpoch
    \/ FitReturn
    \/ CallPredict
    \/ CallForward
    \/ CallPredictValue

\* the model engines: construction, then fit / forward / predict calls
Spec == Init /\ [][Next]_vars

\* ------------------------------------------------ metrics and activations
Labels == {0, 1}
LabelSeqs(n) == [1..n -> Labels]
\* the values precision and recall can take on at most MaxLabels samples
UnitRatios == {Q(ab[1], ab[2]) :
                  ab \in {c \in (0..MaxLabels) \X (1..MaxLabels) : c[1] <= c[2]}}
SigmoidInputs ==
    {RoundDiv(k * Scale, 2) : k \in (-2 * MaxSigmoidArg)..(2 * MaxSigmoidArg)} \cup {-Cap, Cap}
EngineKinds == Classifiers \cup Regressors

EngineIdle ==
    /\ model = [kind |-> "none"]
    /\ created = [kind |-> "none"]
    /\ X = Zeros2(0, 0)
    /\ y = <<>>
    /\ pc = "ready"
    /\ epoch = 0
    /\ fit_epochs = 0
    /\ passes = 0
    /\ steps = 0
    /\ reports = <<>>
    /\ pred_log = {}
    /\ last_out = NoOut
    /\ fwd_log = <<>>
    /\ fits = 0
PureInit ==
    /\ call = NoCall
    /\ EngineIdle
    /\ MainIdle
    /\ RunsIdle
    /\ TabularIdle
\* precision(&y_true, &y_pred) and recall(&y_true, &y_pred) on one pair of label arrays
ApplyPrecisionRecall ==
    \E n \in 0..MaxLabels :
        \E y_true \in LabelSeqs(n), y_pred \in LabelSeqs(n) :
            /\ call' = [fn |-> "precision_recall", y_true |-> y_true, y_pred |-> y_pred,
                        precision |-> precision(y_true, y_pred),
                        recall |-> recall(y_true, y_pred)]
            /\ UNCHANGED outside_pure
\* f1_score(precision, recall)
ApplyF1Score ==
    \E p \in UnitRatios, r \in UnitRatios :
        /\ call' = [fn |-> "f1_score", precision |-> p, recall |-> r,
                    out |-> f1_score(p, r)]
        /\ UNCHANGED outside_pure
\* one element of an engine's sigmoid
ApplySigmoid ==
    \E engine \in EngineKinds, x \in SigmoidInputs :
        /\ call' = [fn |-> "sigmoid", engine |-> engine, x |-> x,
                    exp_arg |-> SigmoidAtOf(engine, x).exp_arg,
                    out |-> SigmoidAtOf(engine, x).out]
        /\ UNCHANGED outside_pure
\* make_dataset(&series, seq_len) on a short series of distinct values; a read
\* past the end of the slice panics
ShortSeries(len) == [k \in 1..len |-> 7 * k]
ApplyMakeDataset ==
    \E len \in 0..MaxShortSeries, sl \in 0..MaxWindow :
        LET values == ShortSeries(len)
            reads == WindowReads(len, sl)
            n_samples == SampleCount(len, sl)
        IN  /\ call' = IF \E k \in reads : k >= len
                       THEN [fn |-> "make_dataset", series |-> values, seq_len |-> sl,
                             reads |-> reads, panic |-> TRUE]
                       ELSE [fn |-> "make_dataset", series |-> values, seq_len |-> sl,
                             reads |-> reads, panic |-> FALSE,
                             X_raw |-> Vec(n_samples, LAMBDA i :
                                           Vec(sl, LAMBDA t : WindowValue(values, i, t))),
                             y_raw |-> Vec(n_samples, LAMBDA i : TargetValue(values, sl, i)),
                             out |-> make_dataset(values, sl)]
            /\ UNCHANGED outside_pure
PureNext ==
    \/ ApplyPrecisionRecall
    \/ ApplyF1Score
    \/ ApplySigmoid
    \/ ApplyMakeDataset
SpecPure == PureInit /\ [][PureNext]_vars

\* =====================================================================
\* Properties of the model engines (specification Spec)
\* =====================================================================

\* C1: in the vanilla RNN, whatever fit has done so far, w_xh, w_hh and b_h are
\* the values the constructor gave them; only w_hy and b_y may differ.
C1_RNNRecurrentWeightsFrozen ==
    model.kind = "rnn" =>
        /\ model.w_xh = created.w_xh
        /\ model.w_hh = created.w_hh
        /\ model.b_h = created.b_h
        /\ [model EXCEPT !.w_hy = created.w_hy, !.b_y = created.b_y] = created
\* an RNN whose fit over a non-empty batch of two-step sequences has returned
\* after two epochs that changed the readout
C1_Witness ==
    /\ model.kind = "rnn"
    /\ X.r >= 1
    /\ X.c >= 2
    /\ ~IsNaN(model.b_y)
    /\ pc = "ready"
    /\ fits = 1
    /\ steps >= 2
    /\ model.w_hy # created.w_hy
    /\ model.b_y # created.b_y

GateParams(m) ==
    IF m.kind = "gru"
    THEN <<m.w_z, m.u_z, m.b_z, m.w_r, m.u_r, m.b_r, m.w_h, m.u_h, m.b_h>>
    ELSE <<m.w_i, m.u_i, m.b_i, m.w_f, m.u_f, m.b_f, m.w_o, m.u_o, m.b_o,
           m.w_g, m.u_g, m.b_g>>
\* C2: in the GRU and the LSTM every gate parameter always equals its value at
\* construction, whatever fit_output_only, forward and predict calls were made;
\* a step changes the instance only inside fit_output_only's loop, and then
\* only w_hy and b_y.
C2_GateParamsFrozen ==
    /\ [](model.kind \in Regressors => GateParams(model) = GateParams(created))
    /\ [][model.kind \in Regressors /\ model' # model =>
            /\ pc = "fit"
            /\ [model' EXCEPT !.w_hy = model.w_hy, !.b_y = model.b_y] = model]_vars
\* an LSTM trained for two epochs on a non-empty batch and then asked to predict
C2_Witness ==
    /\ model.kind = "lstm"
    /\ X.b >= 1
    /\ X.s >= 1
    /\ ~IsNaN(model.b_y)
    /\ fits = 1
    /\ steps >= 2
    /\ last_out.op = "predict"
    /\ model.w_hy # created.w_hy
    /\ model.b_y # created.b_y

\* the shape of every weight and bias tensor of an instance
Shapes(m) ==
    CASE m.kind = "logreg" -> <<Len(m.weights)>>
      [] m.kind = "nn" -> <<Shape2(m.w1), Len(m.b1), Shape2(m.w2)>>
      [] m.kind = "rnn" -> <<Shape2(m.w_xh), Shape2(m.w_hh), Len(m.b_h), Shape2(m.w_hy)>>
      [] m.kind = "gru" ->
           <<Shape2(m.w_z), Shape2(m.u_z), Len(m.b_z), Shape2(m.w_r), Shape2(m.u_r),
             Len(m.b_r), Shape2(m.w_h), Shape2(m.u_h), Len(m.b_h), Shape2(m.w_hy)>>
      [] m.kind = "lstm" ->
           <<Shape2(m.w_i), Shape2(m.u_i), Len(m.b_i), Shape2(m.w_f), Shape2(m.u_f),
             Len(m.b_f), Shape2(m.w_o), Shape2(m.u_o), Len(m.b_o), Shape2(m.w_g),
             Shape2(m.u_g), Len(m.b_g), Shape2(m.w_hy)>>
\* the readout is (hidden_size, 1): output_size = 1
ReadoutShapeOk(m) ==
    CASE m.kind = "logreg" -> TRUE
      [] m.kind = "nn" -> Shape2(m.w2) = <<m.hidden_size, 1>> /\ Len(m.b1) = m.hidden_size
      [] OTHER -> Shape2(m.w_hy) = <<m.hidden_size, 1>>
\* C3: for every model, after every epoch of fit each weight and bias tensor has
\* the shape it had at construction, the readout being (hidden_size, 1).
C3_ShapesFixed == Shapes(model) = Shapes(created) /\ ReadoutShapeOk(model)
\* a GRU of the largest hidden size whose w_hy was replaced by a newly computed array
C3_Witness ==
    /\ model.kind = "gru"
    /\ X.b >= 1
    /\ X.s >= 1
    /\ ~IsNaN(model.b_y)
    /\ model.hidden_size = MaxHidden
    /\ steps >= 2
    /\ model.w_hy # created.w_hy

\* C4: every fit call runs exactly epoch_count iterations, each one forward pass
\* followed by one gradient step, and then returns; no iteration aborts the call;
\* with epoch_count = 0 the parameters are unchanged.
C4_FitRunsEpochCountIterations ==
    /\ pc # "panic"
    /\ pc = "fit" => passes = epoch /\ steps = epoch /\ epoch <= fit_epochs
    /\ (pc = "ready" /\ fits > 0) => passes = fit_epochs /\ steps = fit_epochs
    /\ (pc = "ready" /\ fits = 1 /\ fit_epochs = 0) => model = created

Positives(labels) == {i \in 1..Len(labels) : labels[i] = 1}
\* C5: for a fixed model and input, a sample predicted 1 at a threshold is predicted
\* 1 at every lower threshold, so the count of positives never grows with the
\* threshold; a sample is predicted 1 exactly when its probability is >= threshold.
C5_PredictMonotonic ==
    /\ \A a \in pred_log, b \in pred_log :
          a.threshold <= b.threshold =>
              /\ Positives(b.labels) \subseteq Positives(a.labels)
              /\ Cardinality(Positives(b.labels)) <= Cardinality(Positives(a.labels))
    /\ \A a \in pred_log :
          LET proba == PredictProbaOf(model, X)
          IN  /\ Len(a.labels) = Len(proba)
              /\ \A i \in 1..Len(proba) :
                    /\ a.labels[i] \in {0, 1}
                    /\ a.labels[i] = 1 <=>
                          (~IsNaN(proba[i]) /\ proba[i] >= a.threshold)
\* a trained model whose set of positives shrank strictly between two thresholds
C5_Witness ==
    /\ fits = 1
    /\ steps >= 1
    /\ \E a \in pred_log, b \in pred_log :
          /\ a.threshold < b.threshold
          /\ Positives(b.labels) # {}
          /\ Positives(b.labels) # Positives(a.labels)

\* ------------------------------------------- main of the GRU / LSTM programs
SeriesPatterns == {0, 1}
SeriesVal(p, k) == IF p = 0 THEN 1 ELSE (3 * k) % 4
SeriesLengths == (0..MaxSeries) \cup {ScenarioLen}
Programs == Regressors
ReportPeriod(program) == IF program = "gru" THEN GRU_report_period ELSE LSTM_report_period

\* main is entered and prints its banner
SeriesInit ==
    /\ prog \in Programs
    /\ main_pc = "start"
    /\ series = <<>>
    /\ dataset = None
    /\ split = None
    /\ main_model = None
    /\ stdout = <<"banner">>
    /\ files = {}
    /\ call = NoCall
    /\ EngineIdle
    /\ RunsIdle
    /\ TabularIdle
MainStep(from, to) ==
    /\ main_pc = from
    /\ main_pc' = to
    /\ UNCHANGED <<prog, outside_main>>
\* load_series("btc_close_hourly.csv")? returns the Close column
MainLoadSeries ==
    /\ MainStep("start", "loaded")
    /\ \E len \in SeriesLengths, p \in SeriesPatterns :
         series' = Vec(len, LAMBDA k : SeriesVal(p, k))
    /\ UNCHANGED <<dataset, split, main_model, stdout, files>>
\* load_series fails (no file, a missing column, a field that is no number)
MainLoadError ==
    /\ MainStep("start", "load_error")
    /\ UNCHANGED <<series, dataset, split, main_model, stdout, files>>
\* if series.len() <= seq_len + 1 { return Err("Series too short".into()); }
MainTooShort ==
    /\ SeriesTooShort(Len(series), seq_len)
    /\ MainStep("loaded", "too_short")
    /\ UNCHANGED <<series, dataset, split, main_model, stdout, files>>
\* let (X_all, y_all) = make_dataset(&series, seq_len);
MainMakeDataset ==
    /\ ~SeriesTooShort(Len(series), seq_len)
    /\ MainStep("loaded", "dataset")
    /\ dataset' = make_dataset(series, seq_len)
    /\ UNCHANGED <<series, split, main_model, stdout, files>>
\* the train / test split and the "Samples:" line
MainSplit ==
    /\ MainStep("dataset", "split")
    /\ LET n_samples == dataset.X.b
           n_test == TestCount(n_samples)
           n_train == n_samples - n_test
       IN  split' = [n_samples |-> n_samples, n_test |-> n_test, n_train |-> n_train,
                     X_train |-> SliceRows3(dataset.X, 0, n_train),
                     y_train |-> SliceRows1(dataset.y, 0, n_train),
                     X_test |-> SliceRows3(dataset.X, n_train, n_samples),
                     y_test |-> SliceRows1(dataset.y, n_train, n_samples)]
    /\ stdout' = Append(stdout, "samples")
    /\ UNCHANGED <<series, dataset, main_model, files>>
\* GRU::new / LSTM::new(1, hidden_size, lr) and fit_output_only(&X_train, &y_train,
\* epochs). The arithmetic of the model is that of specification Spec; main's
\* run keeps the call: what was constructed, what it was fitted on, what it printed.
MainTrain ==
    /\ MainStep("split", "trained")
    /\ main_model' = [kind |-> prog, input_size |-> 1, hidden_size |-> main_hidden_size,
                      lr |-> Q(1, 1000),
                      fitted |-> [rows |-> split.X_train.b, targets |-> Len(split.y_train),
                                  epochs |-> main_epochs]]
    /\ stdout' = stdout \o
         [k \in 1..Cardinality({e \in 0..(main_epochs - 1) : e % ReportPeriod(prog) = 0})
             |-> "loss"]
    /\ UNCHANGED <<series, dataset, split, files>>
\* predict on both slices and the two MSE lines
MainEvaluate ==
    /\ MainStep("trained", "evaluated")
    /\ stdout' = stdout \o <<"train_mse", "test_mse">>
    /\ UNCHANGED <<series, dataset, split, main_model, files>>
\* save_predictions("predictions.csv", ..): a header and one row per test sample,
\* each with its timestamp idx_i and its true value (the prediction is the model's)
MainSave ==
    /\ MainStep("evaluated", "done")
    /\ files' = files \cup
         {[path |-> "predictions.csv",
           rows |-> Vec(Len(split.y_test), LAMBDA k : [idx |-> k - 1, true |-> split.y_test[k]])]}
    /\ stdout' = Append(stdout, "saved")
    /\ UNCHANGED <<series, dataset, split, main_model>>
SeriesNext ==
    \/ MainLoadSeries
    \/ MainLoadError
    \/ MainTooShort
    \/ MainMakeDataset
    \/ MainSplit
    \/ MainTrain
    \/ MainEvaluate
    \/ MainSave
\* the GRU and LSTM programs, from main's entry to its return
SpecSeries == SeriesInit /\ [][SeriesNext]_vars

\* ------------------------------------ two runs of a classifier program
\* Steps 4 and 5 of main: new, fit, predict(&X_test, 0.5), accuracy.  Two runs of
\* the same program get the same data and hyperparameters; each has its own
\* thread_rng, which NeuralNetwork::new draws from and LogisticRegression::new
\* does not.
RunIds == {1, 2}
RunKinds == {"logreg", "nn"}
\* correct as f64 / y_true.len() as f64
accuracy(y_true, y_pred) ==
    Q(Cardinality({i \in 1..Min(Len(y_true), Len(y_pred)) : y_true[i] = y_pred[i]}),
      Len(y_true))
\* the constructor call with a bug: the logistic regression starts from random weights
NewClassifier_RandomLogReg(kind, n_features, hidden, lr, l2, epochs, seed) ==
    IF kind = "logreg"
    THEN [LogisticRegression_new(n_features, lr, l2, epochs) EXCEPT
              !.weights = Vec(n_features, LAMBDA j : Draw(seed, j, One))]
    ELSE NeuralNetwork_new(n_features, hidden, lr, epochs, seed)
\* LogisticRegression::new(5, 0.1, 0.01, 2000) / NeuralNetwork::new(5, 10, 0.01, 1000)
\* in a process whose thread_rng has the given seed
NewClassifier(kind, n_features, hidden, lr, l2, epochs, seed) ==
    IF kind = "logreg" THEN LogisticRegression_new(n_features, lr, l2, epochs)
    ELSE NeuralNetwork_new(n_features, hidden, lr, epochs, seed)
ClassifierFitEpoch(m, data, labels, e) ==
    IF m.kind = "logreg" THEN LogisticRegression_fit_epoch(m, data, labels, e)
    ELSE NeuralNetwork_fit_epoch(m, data, labels, e)
RunsInit ==
    /\ \E kind \in RunKinds, cols \in FeatureCounts, n \in BatchSizes, e \in 0..MaxEpochs :
         run_input = [kind |-> kind, n_features |-> cols, hidden |-> MaxHidden,
                      lr |-> LearningRate, l2 |-> L2, epochs |-> e,
                      X_train |-> TabularX(n, cols, 1), y_train |-> TabularY(n, 1),
                      X_test |-> TabularX(MaxBatch, cols, 2),
                      y_test_u8 |-> Vec(MaxBatch, LAMBDA i : (i + 1) % 2)]
    /\ \E seeds \in [RunIds -> Seeds] :
         run = [r \in RunIds |-> [pc |-> "start", seed |-> seeds[r]]]
    /\ (run_input.kind = "logreg" => \A r \in RunIds : run[r].seed = 1)
    /\ call = NoCall
    /\ EngineIdle
    /\ MainIdle
    /\ TabularIdle
RunStep(r, next) ==
    /\ run' = [run EXCEPT ![r] = next]
    /\ UNCHANGED <<run_input, outside_runs>>
\* let mut model = ..::new(..);
RunNew(r) ==
    /\ run[r].pc = "start"
    /\ LET m == NewClassifier(run_input.kind, run_input.n_features, run_input.hidden,
                              run_input.lr, run_input.l2, run_input.epochs, run[r].seed)
       IN  RunStep(r, [pc |-> "fit", seed |-> run[r].seed, created |-> m, model |-> m,
                       epoch |-> 0])
\* one iteration of the loop of model.fit(&X_train, &y_train)
RunFitEpoch(r) ==
    /\ run[r].pc = "fit"
    /\ run[r].epoch < run[r].model.epochs
    /\ LET res == ClassifierFitEpoch(run[r].model, run_input.X_train, run_input.y_train,
                                     run[r].epoch)
       IN  RunStep(r, [run[r] EXCEPT !.pc = IF res.panic THEN "panic" ELSE "fit",
                                     !.model = res.model,
                                     !.epoch = IF res.panic THEN @ ELSE @ + 1])
\* fit returns; predict(&X_test, 0.5) and accuracy(&y_test_u8, &y_pred)
RunEvaluate(r) ==
    /\ run[r].pc = "fit"
    /\ run[r].epoch = run[r].model.epochs
    /\ LET y_pred == PredictOf(run[r].model, run_input.X_test, Scale \div 2)
       IN  RunStep(r, [pc |-> "done", seed |-> run[r].seed, created |-> run[r].created,
                       model |-> run[r].model, epoch |-> run[r].epoch, y_pred |-> y_pred,
                       acc |-> accuracy(run_input.y_test_u8, y_pred)])
RunsNext ==
    \/ \E r \in RunIds : RunNew(r)
    \/ \E r \in RunIds : RunFitEpoch(r)
    \/ \E r \in RunIds : RunEvaluate(r)
\* two runs of the logistic-regression or of the feedforward-NN program
SpecRuns == RunsInit /\ [][RunsNext]_vars

\* ------------------------------------- main of a tabular program, steps 1-3
\* BMI_Stroke.csv: the number of records and what they hold.  Pattern 0 is a
\* table of constant columns, 1 a periodic one, 2 one whose values grow with
\* the row and then stay.
TablePatterns == {0, 1, 2}
TableRows == (0..MaxRows) \cup {ScenarioRows}
TableVal(p, i, j) ==
    CASE p = 0 -> j
      [] p = 1 -> (3 * i + j) % 4
      [] p = 2 -> Min(i + j, 8)
StrokeVal(i) == IF i % 3 = 0 THEN 1 ELSE 0
TabularPrograms == {"logreg", "nn", "rnn"}
\* load_csv: (X, y, y_label), y the stroke column as f64 and y_label as u8
load_csv(n, p) ==
    [X |-> Mat(n, MaxCols, LAMBDA i, j : TableVal(p, i, j)),
     y |-> Vec(n, LAMBDA i : FromInt(StrokeVal(i))),
     y_label |-> Vec(n, LAMBDA i : StrokeVal(i))]
TabularInit ==
    /\ \E program \in TabularPrograms : tabular = [prog |-> program, pc |-> "start"]
    /\ call = NoCall
    /\ EngineIdle
    /\ MainIdle
    /\ RunsIdle
TabStep(next) ==
    /\ tabular' = next
    /\ UNCHANGED outside_tabular
\* let (X, y, y_label) = load_csv("./BMI_Stroke.csv")?;
TabLoadCsv ==
    /\ tabular.pc = "start"
    /\ \E n \in TableRows, p \in TablePatterns :
         TabStep([prog |-> tabular.prog, pc |-> "loaded", csv |-> load_csv(n, p)])
\* the file is missing or a record does not parse: main returns the error
TabLoadError ==
    /\ tabular.pc = "start"
    /\ TabStep([prog |-> tabular.prog, pc |-> "load_error"])
\* step 2: mean and std of every column over all loaded rows, then X_std
TabStandardize ==
    /\ tabular.pc = "loaded"
    /\ LET mean == ColumnMeans(tabular.csv.X)
       IN  IF mean.none
           THEN TabStep([prog |-> tabular.prog, pc |-> "panic", csv |-> tabular.csv])
           ELSE LET std == ColumnStds(tabular.csv.X, mean.val)
                IN  TabStep([prog |-> tabular.prog, pc |-> "standardized",
                             csv |-> tabular.csv, mean |-> mean.val, std |-> std,
                             X_std |-> StandardiseRows(tabular.csv.X, mean.val, std)])
\* step 3: the train / test split
TabSplit ==
    /\ tabular.pc = "standardized"
    /\ \E n \in {tabular.X_std.r} : \E n_train \in {TrainCount(n)} :
           TabStep([prog |-> tabular.prog, pc |-> "split", csv |-> tabular.csv,
                    mean |-> tabular.mean, std |-> tabular.std, X_std |-> tabular.X_std,
                    n_train |-> n_train,
                    X_train |-> SliceRows2(tabular.X_std, 0, n_train),
                    y_train |-> SliceRows1(tabular.csv.y, 0, n_train),
                    y_train_u8 |-> SliceRows1(tabular.csv.y_label, 0, n_train),
                    X_test |-> SliceRows2(tabular.X_std, n_train, n),
                    y_test_u8 |-> SliceRows1(tabular.csv.y_label, n_train, n)])
TabularNext ==
    \/ TabLoadCsv
    \/ TabLoadError
    \/ TabStandardize
    \/ TabSplit
\* a tabular program from its start to the split; what it does with the split
\* (new, fit, predict, metrics) is the subject of Spec and SpecRuns
SpecTabular == TabularInit /\ [][TabularNext]_vars

\* =====================================================================
\* Properties of the metrics and activations (specification SpecPure)
\* =====================================================================

TP(c) == Cardinality({i \in 1..Len(c.y_true) : c.y_true[i] = 1 /\ c.y_pred[i] = 1})
FP(c) == Cardinality({i \in 1..Len(c.y_true) : c.y_true[i] = 0 /\ c.y_pred[i] = 1})
FN(c) == Cardinality({i \in 1..Len(c.y_true) : c.y_true[i] = 1 /\ c.y_pred[i] = 0})
\* q is the fraction a / b, b > 0
IsFraction(q, a, b) == q.d > 0 /\ q.n * b = a * q.d
\* C6: on equal-length 0/1 label sequences precision is 0 when TP + FP = 0 and
\* TP / (TP + FP) otherwise, recall is 0 when TP + FN = 0 and TP / (TP + FN)
\* otherwise; neither is the result of a division by zero.
C6_PrecisionRecallGuarded ==
    call.fn = "precision_recall" =>
        /\ call.precision.d # 0
        /\ call.recall.d # 0
        /\ IF TP(call) + FP(call) = 0 THEN call.precision = QInt(0)
           ELSE IsFraction(call.precision, TP(call), TP(call) + FP(call))
        /\ IF TP(call) + FN(call) = 0 THEN call.recall = QInt(0)
           ELSE IsFraction(call.recall, TP(call), TP(call) + FN(call))
\* no sample is predicted positive although some are positive: precision's
\* denominator is zero, recall's is not
C6_Witness ==
    /\ call.fn = "precision_recall"
    /\ Len(call.y_true) = MaxLabels
    /\ TP(call) + FP(call) = 0
    /\ TP(call) + FN(call) > 0
    /\ call.precision = QInt(0)

\* C7: f1_score(p, r) is 0 when p = r = 0 and otherwise the harmonic mean h of
\* p and r, the number with h * (p + r) = 2 * p * r; f1_score(1, 1) = 1.
C7_F1HarmonicMean ==
    call.fn = "f1_score" =>
        LET p == call.precision
            r == call.recall
        IN  /\ call.out.d # 0
            /\ (p = QInt(0) /\ r = QInt(0)) => call.out = QInt(0)
            /\ ~(p = QInt(0) /\ r = QInt(0)) =>
                  call.out.n * (p.n * r.d + r.n * p.d) * (p.d * r.d)
                      = 2 * p.n * r.n * (p.d * r.d) * call.out.d
            /\ (p = QInt(1) /\ r = QInt(1)) => call.out = QInt(1)
\* f1_score of two different positive values
C7_Witness ==
    /\ call.fn = "f1_score"
    /\ call.precision = Q(1, 2)
    /\ call.recall = QInt(1)
    /\ call.out = Q(2, 3)

\* C10: every engine's sigmoid has the two-branch form, so exp is never evaluated
\* at a positive argument.
C10_SigmoidTwoBranch ==
    call.fn = "sigmoid" =>
        /\ call.exp_arg <= 0
        /\ call.exp_arg = (IF call.x >= 0 THEN -call.x ELSE call.x)

\* C17: make_dataset builds one-step-ahead windows.  With i and t counted
\* from 0 as in the code: there are len - seq_len samples (none when the series
\* is no longer than seq_len); the un-normalised X[i][t] is series[i + t] and the
\* un-normalised y[i] is series[i + seq_len], the value right after the window;
\* and every index read lies in 0..len-1, so no read panics.
C17_OneStepAheadWindows ==
    call.fn = "make_dataset" =>
        LET len == Len(call.series)
            sl == call.seq_len
            n_samples == IF len > sl THEN len - sl ELSE 0
        IN  /\ ~call.panic
            /\ call.reads \subseteq 0..(len - 1)
            /\ (len <= sl => call.reads = {})
            /\ Len(call.X_raw) = n_samples
            /\ Len(call.y_raw) = n_samples
            /\ call.out.X.b = n_samples
            /\ call.out.X.s = sl
            /\ Len(call.out.y) = n_samples
            /\ \A i \in 0..(n_samples - 1) :
                  /\ Len(call.X_raw[i + 1]) = sl
                  /\ \A t \in 0..(sl - 1) : call.X_raw[i + 1][t + 1] = call.series[i + t + 1]
                  /\ call.y_raw[i + 1] = call.series[i + sl + 1]
                  /\ i + sl \in call.reads
                  /\ \A t \in 0..(sl - 1) : i + t \in call.reads
\* the longest series cut into windows of two: the last target is the last value
C17_Witness ==
    /\ call.fn = "make_dataset"
    /\ Len(call.series) = MaxShortSeries
    /\ call.seq_len = 2
    /\ ~call.panic
    /\ Len(call.X_raw) = MaxShortSeries - 2
    /\ call.y_raw[MaxShortSeries - 2] = call.series[MaxShortSeries]
    /\ call.X_raw[1] = <<call.series[1], call.series[2]>>
    /\ MaxShortSeries - 1 \in call.reads

\* =====================================================================
\* Properties of the GRU and LSTM programs (specification SpecSeries)
\* =====================================================================

AfterDataset == {"dataset", "split", "trained", "evaluated", "done"}
AfterSplit == {"split", "trained", "evaluated", "done"}
\* C8: a series of length L gives exactly L - seq_len windowed samples; the split
\* has n_test = ceil(0.1 * n_samples), the least integer with 10 * n_test >=
\* n_samples, and n_train = n_samples - n_test; the training set is the first
\* n_train samples and the test set the last n_test samples; L = 500 with
\* seq_len = 24 gives 476 samples, 48 for the test and 428 for the training.
C8_WindowsAndSplit ==
    /\ main_pc \in AfterDataset =>
          /\ dataset.X.b = Len(series) - seq_len
          /\ Len(dataset.X.d) = Len(series) - seq_len
          /\ Len(dataset.y) = Len(series) - seq_len
    /\ main_pc \in AfterSplit =>
          /\ split.n_samples = Len(series) - seq_len
          /\ 10 * split.n_test >= split.n_samples
          /\ 10 * (split.n_test - 1) < split.n_samples
          /\ split.n_train = split.n_samples - split.n_test
          /\ split.X_train.b = split.n_train /\ Len(split.X_train.d) = split.n_train
          /\ Len(split.y_train) = split.n_train
          /\ split.X_test.b = split.n_test /\ Len(split.X_test.d) = split.n_test
          /\ Len(split.y_test) = split.n_test
          /\ \A k \in 1..split.n_train :
                /\ split.X_train.d[k] = dataset.X.d[k]
                /\ split.y_train[k] = dataset.y[k]
          /\ \A k \in 1..split.n_test :
                /\ split.X_test.d[k] = dataset.X.d[split.n_samples - split.n_test + k]
                /\ split.y_test[k] = dataset.y[split.n_samples - split.n_test + k]
          /\ (Len(series) = 500 /\ seq_len = 24) =>
                split.n_samples = 476 /\ split.n_test = 48 /\ split.n_train = 428
\* the run on a series of 500 values has written its predictions
C8_Witness ==
    /\ main_pc = "done"
    /\ Len(series) = 500
    /\ split.n_samples = 476
    /\ split.n_test = 48
    /\ split.n_train = 428
    /\ \E f \in files : Len(f.rows) = 48

NothingProduced ==
    /\ dataset = None
    /\ split = None
    /\ main_model = None
    /\ files = {}
\* C9 as stated: the run aborts with the insufficient-data error exactly when the
\* series has fewer than seq_len + 1 values, a series of seq_len + 1 or more values
\* proceeds, and an abort comes before any dataset, model or output file.
C9_AbortsBelowWindowPlusOne ==
    /\ main_pc = "too_short" => (Len(series) < seq_len + 1 /\ NothingProduced)
    /\ main_pc \in AfterDataset => Len(series) >= seq_len + 1
\* C9: the run aborts with the insufficient-data error exactly when the series
\* has seq_len + 1 or fewer values, and a series of seq_len + 2 or more values
\* proceeds to dataset construction and training: the step after loading is the
\* abort in the first case and make_dataset in the second; an abort comes
\* before any dataset, model or output file.
C9_AbortsAtWindowPlusOneOrFewer ==
    /\ [](/\ main_pc = "too_short" => (Len(series) <= seq_len + 1 /\ NothingProduced)
          /\ main_pc \in AfterDataset => Len(series) >= seq_len + 2)
    /\ [][main_pc = "loaded" =>
            main_pc' = (IF Len(series) <= seq_len + 1 THEN "too_short" ELSE "dataset")]_vars
\* a series of exactly seq_len + 1 values was rejected
C9_Witness ==
    /\ main_pc = "too_short"
    /\ Len(series) = seq_len + 1
    /\ NothingProduced

\* C15: in every run that builds a dataset, the standard deviation make_dataset
\* divides by is at least the floor 1e-8: never zero, and never a positive value
\* below the floor.
C15_StdFlooredAtMinimum ==
    main_pc \in AfterDataset => dataset.std >= StdFloor * Scale

\* C20: once the series has passed the length check, the dataset has at least
\* two samples, and the split gives n_train >= 1 and n_test >= 1 with n_train +
\* n_test = n_samples; so the batch fit_output_only divides by is not empty, and
\* neither is the test set the test MSE is averaged over.
C20_BothSetsNonEmpty ==
    /\ main_pc \in AfterDataset => dataset.X.b >= 2
    /\ main_pc \in AfterSplit =>
          /\ split.n_train >= 1
          /\ split.n_test >= 1
          /\ split.n_train + split.n_test = split.n_samples
          /\ split.X_train.b = split.n_train
          /\ Len(split.y_train) = split.n_train
          /\ split.X_test.b = split.n_test
          /\ Len(split.y_test) = split.n_test
    /\ main_pc \in {"trained", "evaluated", "done"} =>
          /\ main_model.fitted.rows >= 1
          /\ main_model.fitted.targets = main_model.fitted.rows
\* the shortest series that passes the check: two samples, one for each set
C20_Witness ==
    /\ main_pc = "done"
    /\ Len(series) = seq_len + 2
    /\ split.n_samples = 2
    /\ split.n_train = 1
    /\ split.n_test = 1
    /\ main_model.fitted.rows = 1

\* =====================================================================
\* Properties of two runs of a program (specification SpecRuns)
\* =====================================================================

Started(r) == run[r].pc # "start"
Recurrent == {"rnn", "gru", "lstm"}
Timesteps(data) == IF "c" \in DOMAIN data THEN data.c ELSE data.s
Rows(data) == IF "r" \in DOMAIN data THEN data.r ELSE data.b
Timestep(data, t) == IF "c" \in DOMAIN data THEN ColSlice(data, t) ELSE Slice3(data, t)
\* the hidden state after the first timestep when nothing precedes it: every
\* product with the previous hidden (and cell) state is the zero matrix
FirstHiddenFromZero(m, data) ==
    LET x_1 == Timestep(data, 1)
        In(w, b) == AddRow(Dot(x_1, w), b)
    IN  CASE m.kind = "rnn" -> RNN_tanh(In(m.w_xh, m.b_h))
          [] m.kind = "gru" ->
                Mul2(GRU_sigmoid(In(m.w_z, m.b_z)), GRU_tanh(In(m.w_h, m.b_h)))
          [] m.kind = "lstm" ->
                Mul2(LSTM_sigmoid(In(m.w_o, m.b_o)),
                     LSTM_tanh(Mul2(LSTM_sigmoid(In(m.w_i, m.b_i)),
                                    LSTM_tanh(In(m.w_g, m.b_g)))))
\* what forward returns on an input without timesteps when it starts from zeros
ForwardOfNothing(m, data) ==
    LET zeros == [r |-> Rows(data), c |-> m.hidden_size,
                  d |-> Strict([i \in 1..Rows(data) |->
                                  Strict([j \in 1..m.hidden_size |-> 0])])]
    IN  IF m.kind = "rnn"
        THEN [hs |-> <<>>, y_pred |-> RNN_sigmoid(AddScalar(Dot(zeros, m.w_hy), m.b_y))]
        ELSE [h_t |-> zeros, hs |-> <<>>]
\* C12: for the RNN, GRU and LSTM, the forward calls made on one instance with
\* the same input and no fit in between all return the same output; each call
\* starts from the all-zero hidden (and cell) state, whatever an earlier call
\* ended in; and a forward call changes no parameter of the instance.
C12_ForwardPure ==
    /\ [](\A i \in 1..Len(fwd_log) :
            /\ fwd_log[i] = fwd_log[1]
            /\ IF Timesteps(X) = 0 THEN fwd_log[i] = ForwardOfNothing(model, X)
               ELSE fwd_log[i].hs[1] = FirstHiddenFromZero(model, X))
    /\ [][Len(fwd_log') > Len(fwd_log) => model' = model]_vars
\* two forward calls on a trained GRU over the longest sequence; the first call
\* ended in a non-zero hidden state
C12_Witness ==
    /\ model.kind = "gru"
    /\ fits = 1
    /\ X.b >= 1
    /\ X.s = MaxCols
    /\ Len(fwd_log) = MaxForwards
    /\ \E i \in 1..X.b, j \in 1..model.hidden_size : fwd_log[1].h_t.d[i][j] # 0

ZeroState(m, data) ==
    [r |-> Rows(data), c |-> m.hidden_size,
     d |-> Strict([i \in 1..Rows(data) |-> Strict([j \in 1..m.hidden_size |-> 0])])]
\* the entry before entry t of a hidden-state sequence
Before(m, data, hs, t) == IF t = 1 THEN ZeroState(m, data) ELSE hs[t - 1]
\* the LSTM's cell state after timestep t, given the hidden states it went through
RECURSIVE CellAfter(_, _, _, _)
CellAfter(m, data, hs, t) ==
    IF t = 0 THEN ZeroState(m, data)
    ELSE LET x_t == Timestep(data, t)
             h == Before(m, data, hs, t)
         IN  Add2(Mul2(LSTM_sigmoid(Gate(x_t, m.w_f, h, m.u_f, m.b_f)),
                       CellAfter(m, data, hs, t - 1)),
                  Mul2(LSTM_sigmoid(Gate(x_t, m.w_i, h, m.u_i, m.b_i)),
                       LSTM_tanh(Gate(x_t, m.w_g, h, m.u_g, m.b_g))))
\* the hidden state that timestep t makes of the one before it
HiddenAfter(m, data, hs, t) ==
    LET x_t == Timestep(data, t)
        h == Before(m, data, hs, t)
    IN  CASE m.kind = "rnn" ->
                RNN_tanh(AddRow(Add2(Dot(x_t, m.w_xh), Dot(h, m.w_hh)), m.b_h))
          [] m.kind = "gru" ->
                LET z_t == GRU_sigmoid(Gate(x_t, m.w_z, h, m.u_z, m.b_z))
                    r_t == GRU_sigmoid(Gate(x_t, m.w_r, h, m.u_r, m.b_r))
                    h_tilde == GRU_tanh(Gate(x_t, m.w_h, Mul2(r_t, h), m.u_h, m.b_h))
                IN  Add2(Mul2(Map2(z_t, LAMBDA v : FSub(One, v)), h), Mul2(z_t, h_tilde))
          [] m.kind = "lstm" ->
                Mul2(LSTM_sigmoid(Gate(x_t, m.w_o, h, m.u_o, m.b_o)),
                     LSTM_tanh(CellAfter(m, data, hs, t)))
\* C16: a forward call over T timesteps returns a hidden-state sequence of
\* exactly T entries; entry t is what timestep t makes of entry t - 1 (of the
\* zero state for the first), so it is the state after timesteps 1..t in order;
\* the state handed to the readout is the last entry, or the zero state when
\* T = 0.
C16_HiddenSequence ==
    \A n \in 1..Len(fwd_log) :
        LET out == fwd_log[n]
            T == Timesteps(X)
            last == IF T = 0 THEN ZeroState(model, X) ELSE out.hs[T]
        IN  /\ Len(out.hs) = T
            /\ \A t \in 1..T : out.hs[t] = HiddenAfter(model, X, out.hs, t)
            /\ IF model.kind = "rnn"
               THEN out.y_pred = RNN_sigmoid(AddScalar(Dot(last, model.w_hy), model.b_y))
               ELSE out.h_t = last
\* an LSTM went over the longest sequence and its hidden state changed on the way
C16_Witness ==
    /\ model.kind = "lstm"
    /\ X.b >= 1
    /\ X.s = MaxCols
    /\ fwd_log # <<>>
    /\ Len(fwd_log[1].hs) = MaxCols
    /\ fwd_log[1].hs[1] # fwd_log[1].hs[MaxCols]
    /\ fwd_log[1].h_t # ZeroState(model, X)

Reporting == {"nn", "rnn", "gru", "lstm"}
PeriodOf(m) ==
    CASE m.kind = "nn" -> NN_report_period
      [] m.kind = "rnn" -> RNN_report_period
      [] m.kind = "gru" -> GRU_report_period
      [] m.kind = "lstm" -> LSTM_report_period
\* the epoch indices below n that are divisible by the period, in order
DueReports(n, period) == [k \in 1..((n + period - 1) \div period) |-> (k - 1) * period]
\* the body of the fit loop at a given epoch index
EpochOf(m, data, labels, e) ==
    CASE m.kind = "nn" -> NeuralNetwork_fit_epoch(m, data, labels, e)
      [] m.kind = "rnn" -> RNN_fit_epoch(m, data, labels, e)
      [] m.kind = "gru" -> GRU_fit_output_only_epoch(m, data, labels, e)
      [] m.kind = "lstm" -> LSTM_fit_output_only_epoch(m, data, labels, e)
\* C18: in a fit of the feedforward NN or the RNN (period 200) and of the GRU
\* or the LSTM (period 100), the reports emitted so far are exactly those of the
\* 0-based epoch indices passed that the period divides, in order; a fit of E
\* epochs that returns has emitted ceil(E / period) of them, the first at epoch
\* 0; and an iteration leaves the parameters as the same iteration does at an
\* epoch index that emits no report.
C18_ReportSchedule ==
    /\ [](model.kind \in Reporting /\ pc \in {"fit", "ready"} =>
            /\ reports = DueReports(epoch, PeriodOf(model))
            /\ (pc = "ready" /\ fits >= 1 =>
                  /\ Len(reports) * PeriodOf(model) >= fit_epochs
                  /\ (Len(reports) - 1) * PeriodOf(model) < fit_epochs
                  /\ (fit_epochs >= 1 => reports[1] = 0)))
    /\ [][model.kind \in Reporting /\ passes' = passes + 1 =>
            model' = EpochOf(model, X, y, 1).model]_vars
\* a GRU fit of more than two periods has returned after three reports
C18_Witness ==
    /\ model.kind = "gru"
    /\ pc = "ready"
    /\ fits = 1
    /\ fit_epochs = LongFit
    /\ Len(reports) >= 3
    /\ reports[2] = GRU_report_period
    /\ reports[3] = 2 * GRU_report_period
    /\ model.w_hy # created.w_hy

\* the four gradients of one epoch of the feedforward NN, from given values of
\* the four parameters
GradientsAt(w1, b1, w2, b2, data, labels) ==
    LET n == FromInt(data.r)
        z1 == AddRow(Dot(data, w1), b1)
        a1 == relu(z1)
        a2 == NeuralNetwork_sigmoid(AddScalar(Dot(a1, w2), b2))
        dz2 == Sub2(a2, AsColumn(labels))
        dz1 == Mul2(Dot(dz2, Transpose(w2)), relu_derivative(z1))
    IN  [dW1 |-> DivScalar(Dot(Transpose(data), dz1), n),
         db1 |-> MeanAxis0(dz1).val,
         dW2 |-> DivScalar(Dot(Transpose(a1), dz2), n),
         db2 |-> FDiv(Sum2(dz2), n)]
\* C19: an epoch of the feedforward NN's fit that completes takes all four
\* gradients at the values W1, b1, W2, b2 had when the epoch began, and moves
\* each parameter by its own gradient times the learning rate: the error
\* passed back to the hidden layer goes through W2 as it was before W2's
\* update, and z1 is recomputed from W1 and b1 as they were before theirs.
C19_GradientsFromEpochStart ==
    [][model.kind = "nn" /\ steps' = steps + 1 =>
          LET g == GradientsAt(model.w1, model.b1, model.w2, model.b2, X, y)
          IN  /\ model'.w1 = SubAssign2(model.w1, Scale2(g.dW1, model.lr))
              /\ model'.b1 = SubAssign1(model.b1, Map1(g.db1, LAMBDA v : FMul(v, model.lr)))
              /\ model'.w2 = SubAssign2(model.w2, Scale2(g.dW2, model.lr))
              /\ model'.b2 = FSub(model.b2, FMul(g.db2, model.lr))]_vars
\* an NN whose two epochs on a non-empty batch moved all four parameters
C19_Witness ==
    /\ model.kind = "nn"
    /\ X.r >= 1
    /\ steps >= 2
    /\ model.w1 # created.w1
    /\ model.b1 # created.b1
    /\ model.w2 # created.w2
    /\ model.b2 # created.b2

\* =====================================================================
\* Properties of the tabular programs (specification SpecTabular)
\* =====================================================================

\* mean and population standard deviation of column j of a matrix of f64 values
MeanOfColumn(A, j) == RoundDiv(ISum(LAMBDA i : A.d[i][j], A.r), A.r)
StdOfColumn(A, j) ==
    ISqrt(RoundDiv(ISum(LAMBDA i : (A.d[i][j] - MeanOfColumn(A, j))
                                   * (A.d[i][j] - MeanOfColumn(A, j)), A.r), A.r))
\* the loaded values of column j differ among the first n rows
VariesWithin(j, n) ==
    \E i \in 1..n, k \in 1..n : tabular.csv.X.d[i][j] # tabular.csv.X.d[k][j]
\* C13: after the split, every feature column whose training rows are not all
\* equal has, over the rows of the training set, a standardised mean of 0 and a
\* standardised standard deviation of 1.  (Stated here with the tolerance 0.1,
\* far wider than the 1e-6 of the claim.)
C13_TrainingSplitStandardised ==
    tabular.pc = "split" =>
        \A j \in 1..tabular.X_train.c :
            VariesWithin(j, tabular.n_train) =>
                /\ Abs(MeanOfColumn(tabular.X_train, j)) <= Scale \div 10
                /\ Abs(StdOfColumn(tabular.X_train, j) - One) <= Scale \div 10

\* C14: the training set is the first floor(0.8 * N) rows of the standardised
\* table and the test set the remaining rows, in their original order, so the
\* two are disjoint and together hold every row once; the labels are cut at the
\* same index, so row i of a feature set goes with label i of its label set.
C14_ChronologicalSplit ==
    tabular.pc = "split" =>
        LET N == tabular.X_std.r
            k == tabular.n_train
        IN  /\ 10 * k <= 8 * N
            /\ 8 * N < 10 * (k + 1)
            /\ Shape2(tabular.X_train) = <<k, tabular.X_std.c>>
            /\ Shape2(tabular.X_test) = <<N - k, tabular.X_std.c>>
            /\ Len(tabular.y_train) = k
            /\ Len(tabular.y_train_u8) = k
            /\ Len(tabular.y_test_u8) = N - k
            /\ \A i \in 1..k :
                  /\ tabular.X_train.d[i] = tabular.X_std.d[i]
                  /\ tabular.y_train[i] = tabular.csv.y[i]
                  /\ tabular.y_train_u8[i] = tabular.csv.y_label[i]
            /\ \A i \in 1..(N - k) :
                  /\ tabular.X_test.d[i] = tabular.X_std.d[k + i]
                  /\ tabular.y_test_u8[i] = tabular.csv.y_label[k + i]
\* a table of MaxRows rows whose 80% is not a whole number, split into two
\* non-empty parts whose rows differ
C14_Witness ==
    /\ tabular.pc = "split"
    /\ tabular.X_std.r = MaxRows
    /\ 10 * tabular.n_train < 8 * MaxRows
    /\ tabular.X_train.r >= 1
    /\ tabular.X_test.r >= 1
    /\ tabular.X_train.d[1] # tabular.X_test.d[1]
    /\ \E i \in 1..tabular.n_train : tabular.y_train_u8[i] = 1

====
